---- MODULE Spec2Model ----
(***************************************************************************)
(* Obsidian Council: the agent task lifecycle, mailbox and message wire   *)
(* shape of core/agent_base.py (class ObsidianAgent), and the provider     *)
(* router of core/ai_service_manager.py (class AIServiceManager), as a     *)
(* state machine.                                                          *)
(*                                                                         *)
(* Everything runs on one asyncio event loop: code between two awaits that *)
(* really suspend is one atomic step.  The suspension points modelled are  *)
(* the call of the specialization's analyze, the shared-store publish,     *)
(* the mailbox get, the mailbox loop's sleep, a provider's health probe    *)
(* and a provider's query.                                                 *)
(***************************************************************************)
EXTENDS Integers, Sequences, FiniteSets, TLC

\* ---------------------------------------------------------------- bounds
MaxTasks == 2
MaxConns == 1
MaxMsgs == 2
MaxQueries == 2
MaxBeats == 2

\* ------------------------------------------------------------- constants
\* Priority (Enum): LOW=1 .. EMERGENCY=5
LOW == 1
MEDIUM == 2
HIGH == 3
CRITICAL == 4
EMERGENCY == 5

Agents == {"ORACLE", "ATLAS"}

\* One supported task type of each agent, and one nobody supports.
TaskTypes == {"facial_recognition", "location_extraction", "unknown_task"}

\* get_capabilities()["supported_tasks"] of the two specializations
\* (the members of the lists that TaskTypes draws from).
SupportedTasks(a) ==
    IF a = "ORACLE" THEN {"facial_recognition"} ELSE {"location_extraction"}

\* Task ids are fresh uuid4 values: callers' tasks take 1..MaxTasks, the task
\* a task_delegation message creates takes MaxTasks + the message's id.
TaskIds == 1..(MaxTasks + MaxMsgs)

\* WebSocket connection objects that clients may subscribe.
WS == {"ws1", "ws2"}

\* AgentStatus (Enum)
AgentStatus == {"offline", "idle", "working", "error", "collaboration"}

None == "None"

VARIABLES
    status,                 \* self.status, per agent
    current_tasks,          \* self.current_tasks (the keys), per agent
    redis_client,           \* self.redis_client: "None" | "open" | "closed"
    websocket_connections,  \* self.websocket_connections, per agent (a list)
    tasks,                  \* the AgentTask objects, by id
    next_id,                \* the next fresh task id (uuid4)
    proc,                   \* position of each task's _process_task unit
    owner,                  \* the agent whose _process_task unit runs the task
    assign_ret,             \* last return value of assign_task(a, t): "True" | "False"
    analyze_calls,          \* number of analyze invocations made for each task
    completions,            \* records published on channel "task_completions"
    ws_received,            \* records delivered to WebSocket clients
    message_queue,          \* self.message_queue, per agent (FIFO)
    council_agents,         \* self.council_agents (the keys), per agent
    session_memory,         \* self.session_memory, per agent: <<key, value>> pairs
    mp,                     \* position of each agent's _message_processor loop
    next_msg,               \* the next fresh message id (uuid4)
    arrivals,               \* ids put on each agent's queue, in arrival order
    handled,                \* per agent: <<id, "start" | "end">> of each handling
    collab_sent,            \* the requests that collaborate_with calls have put
    collab_ret,             \* caller, recipient and outcome of the last
                            \* collaborate_with call
    collab_log,             \* per agent: the analyze invocations made for
                            \* collaboration requests, with their outcome
    providers,              \* AIServiceManager.providers (the keys)
    health_status,          \* AIServiceManager.health_status (a dict)
    performance_metrics,    \* AIServiceManager.performance_metrics (a dict)
    sweep,                  \* providers a running _health_check_all has yet to probe
    rq,                     \* the route_query call in progress, or the last one
    rq2,                    \* a second route_query call, made while the first
                            \* one is in progress
    probe,                  \* provider and outcome of the last health probe
    queries,                \* number of route_query calls started
    recorded,               \* per provider: the confidences of the responses
                            \* passed to _update_performance_metrics, in order
    mp_errors,              \* per agent: ids of the messages whose handling
                            \* raised, as logged by _message_processor
    hm,                     \* position of each agent's _health_monitor loop
    heartbeats,             \* per agent: the hash agent:<codename> in Redis
    closing,                \* per agent: progress of its shutdown() call
    wire                    \* a message, its serialized text and what
                            \* deserializing that text gave

taskVars == <<tasks, next_id, proc, owner, assign_ret, analyze_calls>>
notifyVars == <<completions, ws_received>>
mailVars == <<message_queue, council_agents, session_memory, mp, next_msg,
              arrivals, handled>>
collabVars == <<collab_sent, collab_ret, collab_log>>
loopVars == <<mp_errors, hm, heartbeats, closing>>
routerVars == <<providers, health_status, performance_metrics, sweep, rq,
                queries, recorded, rq2, probe>>

vars == <<status, current_tasks, redis_client, websocket_connections, tasks,
          next_id, proc, owner, assign_ret, analyze_calls, completions,
          ws_received, message_queue, council_agents, session_memory, mp,
          next_msg, arrivals, handled, collab_sent, collab_ret, collab_log,
          providers, health_status, performance_metrics, sweep, rq, queries,
          recorded, rq2, probe, mp_errors, hm, heartbeats, closing, wire>>

\* AIProvider (Enum)
AIProvider == {"claude", "chatgpt", "gemini", "local"}

\* No outcome yet, and the record of a route_query call not yet made.
NoOutcome == [kind |-> "none", provider |-> None, error |-> None,
              cause |-> None, confidence |-> 0, processing_time |-> 0,
              cost |-> 0]

\* No health probe made yet.
NoProbe == [provider |-> None, outcome |-> None]

NoCall == [pc |-> "idle", query_type |-> None, preferred |-> None,
           fallback |-> TRUE, candidates |-> <<>>, pos |-> 0,
           attempts |-> <<>>, last_error |-> None, outcome |-> NoOutcome]

\* AgentTask(...) as constructed: progress 0, status pending, no result/error.
NewTask(tt, prio) ==
    [task_type |-> tt, priority |-> prio, progress |-> 0,
     status |-> "pending", result |-> None, error |-> None]

NoTask == [task_type |-> None, priority |-> MEDIUM, progress |-> 0,
           status |-> "pending", result |-> None, error |-> None]

Created == 1..(next_id - 1)

Init ==
    /\ status = [a \in Agents |-> "offline"]
    /\ current_tasks = [a \in Agents |-> {}]
    /\ redis_client = [a \in Agents |-> None]
    /\ websocket_connections = [a \in Agents |-> <<>>]
    /\ tasks = [t \in TaskIds |-> NoTask]
    /\ next_id = 1
    /\ proc = [t \in TaskIds |-> "none"]
    /\ owner = [t \in TaskIds |-> None]
    /\ assign_ret = [a \in Agents |-> [t \in TaskIds |-> None]]
    /\ analyze_calls = [t \in TaskIds |-> 0]
    /\ completions = <<>>
    /\ ws_received = {}
    /\ message_queue = [a \in Agents |-> <<>>]
    /\ council_agents = [a \in Agents |-> {}]
    /\ session_memory = [a \in Agents |-> {}]
    /\ mp = [a \in Agents |-> [pc |-> "off", msg |-> None]]
    /\ next_msg = 1
    /\ arrivals = [a \in Agents |-> <<>>]
    /\ handled = [a \in Agents |-> <<>>]
    /\ collab_sent = {}
    /\ collab_ret = [by |-> None, to |-> None, ret |-> None]
    /\ collab_log = [a \in Agents |-> <<>>]
    /\ providers = {}
    /\ health_status = [p \in {} |-> FALSE]
    /\ performance_metrics = [p \in {} |-> 0]
    /\ sweep = <<>>
    /\ rq = NoCall
    /\ rq2 = NoCall
    /\ probe = NoProbe
    /\ queries = 0
    /\ recorded = [p \in AIProvider |-> <<>>]
    /\ mp_errors = [a \in Agents |-> <<>>]
    /\ hm = [a \in Agents |->
               [pc |-> "off", record |-> [status |-> None, active_tasks |-> 0],
                calls |-> 0, failed |-> 0]]
    /\ heartbeats = [a \in Agents |-> [status |-> None, active_tasks |-> 0]]
    /\ closing = [a \in Agents |-> "no"]
    /\ wire = [pc |-> "idle"]

\* ------------------------------------------------------------ initialize
\* initialize(): connections made, status idle, background loops started.
Initialize(a) ==
    /\ redis_client[a] = None
    /\ redis_client' = [redis_client EXCEPT ![a] = "open"]
    /\ status' = [status EXCEPT ![a] = "idle"]
    /\ mp' = [mp EXCEPT ![a].pc = "get"]
    /\ hm' = [hm EXCEPT ![a].pc = "beat"]
    /\ UNCHANGED <<wire, mp_errors, heartbeats, closing, routerVars,
                   collabVars, current_tasks, websocket_connections, taskVars,
                   notifyVars,
                   message_queue, council_agents, session_memory, next_msg,
                   arrivals, handled>>

\* ----------------------------------------------------------- assign_task
\* Faulty variant: every task type is taken
CanHandleAny(a, tt) == TRUE

\* _can_handle_task: task.task_type in capabilities["supported_tasks"]
CanHandleTask(a, tt) == tt \in SupportedTasks(a)

\* Faulty variant: the accepted task is not entered in the table
AddTaskForgot(table, t) == table

\* self.current_tasks[task.id] = task
AddTask(table, t) == table \cup {t}

\* The body of assign_task for task object t (already constructed).
AssignTaskBody(a, t, tk) ==
    IF ~CanHandleTask(a, tk.task_type)
    THEN /\ assign_ret' = [assign_ret EXCEPT ![a][t] = "False"]
         /\ UNCHANGED <<status, current_tasks, proc, owner>>
    ELSE /\ current_tasks' = [current_tasks EXCEPT ![a] = AddTask(@, t)]
         /\ status' = [status EXCEPT ![a] = "working"]
         /\ proc' = [proc EXCEPT ![t] = "scheduled"]
         /\ owner' = [owner EXCEPT ![t] = a]
         /\ assign_ret' = [assign_ret EXCEPT ![a][t] = "True"]

\* A caller builds a task (create_agent_task) and assigns it to agent a.
AssignNewTask(a, tt) ==
    /\ next_id <= MaxTasks
    /\ tasks' = [tasks EXCEPT ![next_id] = NewTask(tt, MEDIUM)]
    /\ next_id' = next_id + 1
    /\ AssignTaskBody(a, next_id, NewTask(tt, MEDIUM))
    /\ UNCHANGED <<wire, loopVars, routerVars,
                   collabVars, redis_client, websocket_connections,
                   analyze_calls,
                   notifyVars, mailVars>>

\* A caller re-routes a task that was refused to another agent.
ReassignTask(a, t) ==
    /\ t \in Created
    /\ assign_ret[a][t] = None
    /\ \A b \in Agents : assign_ret[b][t] # "True"
    /\ \E b \in Agents : assign_ret[b][t] = "False"
    /\ AssignTaskBody(a, t, tasks[t])
    /\ UNCHANGED <<wire, loopVars, routerVars,
                   collabVars, redis_client, websocket_connections, tasks,
                   next_id,
                   analyze_calls, notifyVars, mailVars>>

\* --------------------------------------------------------- _process_task
\* Faulty variant: the entry is left in the table
RemoveTaskKeep(table, t) == table

\* Faulty variant: the whole table is cleared
RemoveTaskAll(table, t) == {}

\* finally: drop the task's own entry, and go idle when the table is empty.
RemoveTask(table, t) == table \ {t}

\* Faulty variant: a failed analyze is scheduled again
UnitAfterRaiseRetry(t) == [proc EXCEPT ![t] = "scheduled"]

\* After except and finally the unit is over: nothing schedules it again.
UnitAfterRaise(t) == [proc EXCEPT ![t] = "done"]

\* Faulty variant: the status becomes idle at every removal
IdleAfterRemoval(table, st) == "idle"

\* if not self.current_tasks: self.status = AgentStatus.IDLE
StatusAfterRemoval(table, st) == IF table = {} THEN "idle" ELSE st

Finally(a, t) ==
    /\ current_tasks' = [current_tasks EXCEPT ![a] = RemoveTask(@, t)]
    /\ status' = [status EXCEPT
                    ![a] = StatusAfterRemoval(RemoveTask(current_tasks[a], t), @)]

\* except Exception as e: task.status = "failed"; task.error = str(e)
TaskFailed(tk, e) == [tk EXCEPT !.status = "failed", !.error = e]

\* task.result = result; task.status = "completed"; task.progress = 100.0
TaskCompleted(tk, r) ==
    [tk EXCEPT !.result = r, !.status = "completed", !.progress = 100]

\* The unit starts: task.status = "in_progress", analyze is called.
ProcessStart(t) ==
    /\ proc[t] = "scheduled"
    /\ tasks' = [tasks EXCEPT ![t].status = "in_progress"]
    /\ analyze_calls' = [analyze_calls EXCEPT ![t] = @ + 1]
    /\ proc' = [proc EXCEPT ![t] = "analyze"]
    /\ UNCHANGED <<wire, loopVars, routerVars,
                   collabVars, status, current_tasks, redis_client,
                   websocket_connections,
                   next_id, owner, assign_ret, notifyVars, mailVars>>

\* analyze raises: except, then finally.
AnalyzeRaise(t) ==
    /\ proc[t] = "analyze"
    /\ tasks' = [tasks EXCEPT ![t] = TaskFailed(@, "analyze_error")]
    /\ Finally(owner[t], t)
    /\ proc' = UnitAfterRaise(t)
    /\ UNCHANGED <<wire, loopVars, routerVars,
                   collabVars, redis_client, websocket_connections, next_id,
                   owner,
                   assign_ret, analyze_calls, notifyVars, mailVars>>

\* analyze returns: the task is completed and _notify_task_completion is
\* entered.  With no redis client (initialize not run) the publish call
\* raises at once (attribute of None); otherwise the unit awaits the publish.
AnalyzeReturn(t) ==
    /\ proc[t] = "analyze"
    /\ IF redis_client[owner[t]] = None
       THEN /\ tasks' = [tasks EXCEPT
                    ![t] = TaskFailed(TaskCompleted(@, "result"), "no_client")]
            /\ Finally(owner[t], t)
            /\ proc' = [proc EXCEPT ![t] = "done"]
       ELSE /\ tasks' = [tasks EXCEPT ![t] = TaskCompleted(@, "result")]
            /\ proc' = [proc EXCEPT ![t] = "publish"]
            /\ UNCHANGED <<status, current_tasks>>
    /\ UNCHANGED <<wire, loopVars, routerVars,
                   collabVars, redis_client, websocket_connections, next_id,
                   owner,
                   assign_ret, analyze_calls, notifyVars, mailVars>>

\* The notification built by _notify_task_completion.
Notification(a, t) ==
    [agent |-> a, task_id |-> t, status |-> tasks[t].status,
     result |-> tasks[t].result]

\* redis publish raises (transport error): except, then finally.
PublishRaise(t) ==
    /\ proc[t] = "publish"
    /\ tasks' = [tasks EXCEPT ![t] = TaskFailed(@, "publish_error")]
    /\ Finally(owner[t], t)
    /\ proc' = [proc EXCEPT ![t] = "done"]
    /\ UNCHANGED <<wire, loopVars, routerVars,
                   collabVars, redis_client, websocket_connections, next_id,
                   owner,
                   assign_ret, analyze_calls, notifyVars, mailVars>>

\* _broadcast_to_websockets: send to each connection in list order.  out[i]
\* is what the i-th send does: "ok", "closed" (ConnectionClosed, the client
\* is pruned afterwards) or "error" (any other exception, which propagates).
FirstError(out) ==
    IF \E i \in DOMAIN out : out[i] = "error"
    THEN CHOOSE i \in DOMAIN out :
            /\ out[i] = "error"
            /\ \A j \in DOMAIN out : out[j] = "error" => i <= j
    ELSE Len(out) + 1

Delivered(conns, out) ==
    {conns[i] : i \in {j \in DOMAIN conns : j < FirstError(out) /\ out[j] = "ok"}}

RECURSIVE RemoveFirst(_, _)
\* list.remove(x): drops the first occurrence of x.
RemoveFirst(s, x) ==
    IF s = <<>> THEN <<>>
    ELSE IF Head(s) = x THEN Tail(s)
    ELSE <<Head(s)>> \o RemoveFirst(Tail(s), x)

RECURSIVE Prune(_, _, _)
\* for ws in disconnected: remove_websocket_client(ws)
Prune(conns, cur, disc) ==
    IF disc = <<>> THEN cur
    ELSE Prune(conns, IF \E i \in DOMAIN cur : cur[i] = Head(disc)
                      THEN RemoveFirst(cur, Head(disc)) ELSE cur, Tail(disc))

Disconnected(conns, out) ==
    LET F[i \in 0..Len(conns)] ==
            IF i = 0 THEN <<>>
            ELSE IF out[i] = "closed" THEN Append(F[i-1], conns[i]) ELSE F[i-1]
    IN F[Len(conns)]

\* redis publish returns: the record is on the channel; then the broadcast,
\* then finally.
PublishReturn(t) ==
    /\ proc[t] = "publish"
    /\ LET a == owner[t]
           conns == websocket_connections[a]
           n == Notification(a, t)
       IN \E out \in [DOMAIN conns -> {"ok", "closed", "error"}] :
            /\ completions' = Append(completions, n)
            /\ ws_received' = ws_received \cup
                              {<<w, n>> : w \in Delivered(conns, out)}
            /\ IF FirstError(out) <= Len(conns)
               THEN /\ tasks' = [tasks EXCEPT ![t] = TaskFailed(@, "send_error")]
                    /\ UNCHANGED websocket_connections
               ELSE /\ UNCHANGED tasks
                    /\ websocket_connections' =
                         [websocket_connections EXCEPT
                            ![a] = Prune(conns, conns, Disconnected(conns, out))]
            /\ Finally(a, t)
            /\ proc' = [proc EXCEPT ![t] = "done"]
    /\ UNCHANGED <<wire, loopVars, routerVars,
                   collabVars, redis_client, next_id, owner, assign_ret,
                   analyze_calls,
                   mailVars>>

\* --------------------------------------------------------- websocket clients
AddWebsocketClient(a, w) ==
    /\ Len(websocket_connections[a]) < MaxConns
    /\ websocket_connections' =
          [websocket_connections EXCEPT ![a] = Append(@, w)]
    /\ UNCHANGED <<wire, loopVars, routerVars,
                   collabVars, status, current_tasks, redis_client, taskVars,
                   notifyVars,
                   mailVars>>

RemoveWebsocketClient(a, w) ==
    /\ \E i \in DOMAIN websocket_connections[a] : websocket_connections[a][i] = w
    /\ websocket_connections' =
          [websocket_connections EXCEPT ![a] = RemoveFirst(@, w)]
    /\ UNCHANGED <<wire, loopVars, routerVars,
                   collabVars, status, current_tasks, redis_client, taskVars,
                   notifyVars,
                   mailVars>>

\* ------------------------------------------------------------- messages
\* AgentMessage(id, sender, recipient, message_type, content, priority);
\* priority defaults to Priority.MEDIUM.
Message(id, snd, rcp, mt, c) ==
    [id |-> id, sender |-> snd, recipient |-> rcp, message_type |-> mt,
     content |-> c, priority |-> MEDIUM]

\* Who may appear as a message's sender: the agents, and a name that is in no
\* council directory.
Senders == Agents \cup {"EXTERNAL"}

\* Contents of task_delegation messages: a dict whose keys may be missing,
\* and whose priority may be no value of the Priority enum.
DelegationContents ==
    { [task_type |-> "facial_recognition"],
      [priority |-> HIGH],
      [task_type |-> "location_extraction", priority |-> 9] }

\* dict.get(key, default)
Get(d, k, default) == IF k \in DOMAIN d THEN d[k] ELSE default

\* What arrives on a mailbox from outside: <<sender, message_type, content>>.
\* The handlers of task_delegation and of the other types read the sender
\* only to log it, so one sender stands for all of them there.
Payloads ==
    {<<snd, "collaboration_request", "q">> : snd \in Senders}
    \cup {<<snd, "data_share", "d">> : snd \in Senders}
    \cup {<<"EXTERNAL", "task_delegation", c>> : c \in DelegationContents}
    \cup {<<"EXTERNAL", "status_ping", "p">>}

\* queue.put(message)
Put(q, m) == Append(q, m)

\* Something holding agent a's queue puts a message on it.
Deliver(a, pl) ==
    /\ next_msg <= MaxMsgs
    /\ message_queue' = [message_queue EXCEPT
                           ![a] = Put(@, Message(next_msg, pl[1], a, pl[2], pl[3]))]
    /\ arrivals' = [arrivals EXCEPT ![a] = Append(@, next_msg)]
    /\ next_msg' = next_msg + 1
    /\ UNCHANGED <<wire, loopVars, routerVars,
                   collabVars, status, current_tasks, redis_client,
                   websocket_connections,
                   taskVars, notifyVars, council_agents, session_memory, mp,
                   handled>>

\* register_with_council(council_agents): the directory holds every agent.
RegisterWithCouncil(a) ==
    /\ council_agents[a] = {}
    /\ council_agents' = [council_agents EXCEPT ![a] = Agents]
    /\ UNCHANGED <<wire, loopVars, routerVars,
                   collabVars, status, current_tasks, redis_client,
                   websocket_connections,
                   taskVars, notifyVars, message_queue, session_memory, mp,
                   next_msg, arrivals, handled>>

\* ------------------------------------------------------ _message_processor
\* Faulty variant: the newest message is taken
QueueGetLast(q) == q[Len(q)]

\* message = await self.message_queue.get(): the oldest message.
QueueGet(q) == Head(q)

QueueRest(q) == Tail(q)

\* Priority(value): raises ValueError unless value is one of 1..5.
ValidPriority(v) == v \in {LOW, MEDIUM, HIGH, CRITICAL, EMERGENCY}

\* Faulty variant: a content without priority gives priority LOW
PriorityOrLow(c) == Get(c, "priority", LOW)

\* message.content.get("priority", 2)
PriorityOf(c) == Get(c, "priority", MEDIUM)

\* session_memory[key] = value (a dict store: one value per key)
DictSet(d, k, v) == {e \in d : e[1] # k} \cup {<<k, v>>}

\* A text as the sequence of its parts between underscores; the name of a
\* sender may hold underscores.
Parts(text) ==
    IF text = "FIELD_UNIT" THEN <<"FIELD", "UNIT">> ELSE <<text>>

\* str(message.id): the text of a uuid4 has hyphens and no underscore.
IdText(id) == <<ToString(id)>>

\* Faulty variant: the key is built from the sender alone
ShareKeyOfSender(m) == <<"shared", "data">> \o Parts(m.sender)

\* key = f"shared_data_{message.sender}_{message.id}": the prefix, the
\* sender and the id joined by underscores.
ShareKey(m) == <<"shared", "data">> \o Parts(m.sender) \o IdText(m.id)

Started(a, m) == Append(handled[a], <<m.id, "start">>)

StartedAndEnded(a, m) == Append(Started(a, m), <<m.id, "end">>)

\* Faulty variant: analyze is called with an empty context
EmptyContext(m) == [collaboration |-> FALSE]

\* The context _handle_collaboration_request passes to analyze.
CollabContext(m) == [collaboration |-> TRUE]

\* analyze(message.content, context) is called for message m.
AnalyzeCall(m, ctx) ==
    [id |-> m.id, data |-> m.content, context |-> ctx, outcome |-> "pending"]

\* What analyze may return.
AnalyzeResults == {"result"}

\* The outcome of the analyze call in progress is recorded.
WithOutcome(log, o) == [log EXCEPT ![Len(log)].outcome = o]

\* response content: {"result": result}
ResponseContent(result) == [result |-> result]

\* Faulty variant: an error in a handling ends the loop
LoopEnded(a) == [pc |-> "dead", msg |-> None]

\* except Exception as e: self.logger.error(...), then the sleep: the loop
\* goes on.
LoopAfterError(a) == [pc |-> "sleep", msg |-> None]

\* The loop takes the next message and runs _handle_message up to its first
\* suspension: a collaboration_request suspends in analyze; every other
\* handler runs through (or raises, which the loop logs) and the loop sleeps.
MPGet(a) ==
    /\ mp[a].pc = "get"
    /\ message_queue[a] # <<>>
    /\ LET m == QueueGet(message_queue[a]) IN
       /\ message_queue' = [message_queue EXCEPT ![a] = QueueRest(@)]
       /\ CASE m.message_type = "collaboration_request" ->
                 /\ status' = [status EXCEPT ![a] = "collaboration"]
                 /\ mp' = [mp EXCEPT ![a] = [pc |-> "analyze", msg |-> m]]
                 /\ handled' = [handled EXCEPT ![a] = Started(a, m)]
                 /\ collab_log' = [collab_log EXCEPT
                        ![a] = Append(@, AnalyzeCall(m, CollabContext(m)))]
                 /\ UNCHANGED <<current_tasks, taskVars, session_memory,
                                mp_errors>>
            [] m.message_type = "data_share" ->
                 /\ session_memory' = [session_memory EXCEPT
                        ![a] = DictSet(@, ShareKey(m),
                                       [data |-> m.content, sender |-> m.sender])]
                 /\ mp' = [mp EXCEPT ![a] = [pc |-> "sleep", msg |-> None]]
                 /\ handled' = [handled EXCEPT ![a] = StartedAndEnded(a, m)]
                 /\ UNCHANGED <<status, current_tasks, taskVars, collab_log,
                                mp_errors>>
            [] m.message_type = "task_delegation" ->
                 /\ IF ValidPriority(PriorityOf(m.content))
                    THEN LET t == MaxTasks + m.id
                             tk == NewTask(Get(m.content, "task_type", None),
                                           PriorityOf(m.content))
                         IN /\ tasks' = [tasks EXCEPT ![t] = tk]
                            /\ AssignTaskBody(a, t, tk)
                            /\ UNCHANGED <<next_id, analyze_calls, mp_errors>>
                    ELSE /\ mp_errors' = [mp_errors EXCEPT ![a] = Append(@, m.id)]
                         /\ UNCHANGED <<status, current_tasks, taskVars>>
                 /\ mp' = [mp EXCEPT ![a] =
                              IF ValidPriority(PriorityOf(m.content))
                              THEN [pc |-> "sleep", msg |-> None]
                              ELSE LoopAfterError(a)]
                 /\ handled' = [handled EXCEPT ![a] = StartedAndEnded(a, m)]
                 /\ UNCHANGED <<session_memory, collab_log>>
            [] OTHER ->
                 /\ mp' = [mp EXCEPT ![a] = [pc |-> "sleep", msg |-> None]]
                 /\ handled' = [handled EXCEPT ![a] = StartedAndEnded(a, m)]
                 /\ UNCHANGED <<status, current_tasks, taskVars, session_memory,
                                collab_log, mp_errors>>
    /\ UNCHANGED <<wire, hm, heartbeats, closing, routerVars,
                   collab_sent, collab_ret, redis_client,
                   websocket_connections, notifyVars,
                   council_agents, next_msg, arrivals>>

\* Faulty variant: the handler's finally always sets idle
IdleAfterCollaboration(table, st) == "idle"

\* finally of _handle_collaboration_request
StatusAfterCollaboration(table, st) == IF table = {} THEN "idle" ELSE st

\* Faulty variant: the response goes to the sender whenever it is an agent
SenderKnown(a, m) == m.sender \in Agents

\* sender_agent = self.council_agents.get(message.sender); if sender_agent:
SenderRegistered(a, m) == m.sender \in council_agents[a]

\* Faulty variant: the answer is itself a collaboration request
ResponseAsRequest == "collaboration_request"

\* message_type=MessageType.COLLABORATION_RESPONSE
ResponseType == "collaboration_response"

\* analyze returns for a collaboration_request: the response goes to the
\* sender's queue when the sender is in the directory; then finally.
\* The response's id is a fresh uuid4: MaxMsgs + the request's id.
MPCollabReturn(a) ==
    /\ mp[a].pc = "analyze"
    /\ \E result \in AnalyzeResults :
         LET m == mp[a].msg
             r == Message(MaxMsgs + m.id, a, m.sender,
                          ResponseType, ResponseContent(result))
         IN /\ collab_log' = [collab_log EXCEPT ![a] = WithOutcome(@, result)]
            /\ IF SenderRegistered(a, m)
               THEN /\ message_queue' =
                         [message_queue EXCEPT ![m.sender] = Put(@, r)]
                    /\ arrivals' = [arrivals EXCEPT ![m.sender] = Append(@, r.id)]
               ELSE UNCHANGED <<message_queue, arrivals>>
    /\ status' = [status EXCEPT
                    ![a] = StatusAfterCollaboration(current_tasks[a], @)]
    /\ handled' = [handled EXCEPT ![a] = Append(@, <<mp[a].msg.id, "end">>)]
    /\ mp' = [mp EXCEPT ![a] = [pc |-> "sleep", msg |-> None]]
    /\ UNCHANGED <<wire, loopVars, routerVars,
                   collab_sent, collab_ret, current_tasks, redis_client,
                   websocket_connections, taskVars, notifyVars, council_agents,
                   session_memory, next_msg>>

\* analyze raises for a collaboration_request: logged; then finally.
MPCollabRaise(a) ==
    /\ mp[a].pc = "analyze"
    /\ status' = [status EXCEPT
                    ![a] = StatusAfterCollaboration(current_tasks[a], @)]
    /\ handled' = [handled EXCEPT ![a] = Append(@, <<mp[a].msg.id, "end">>)]
    /\ mp' = [mp EXCEPT ![a] = [pc |-> "sleep", msg |-> None]]
    /\ collab_log' = [collab_log EXCEPT ![a] = WithOutcome(@, "raised")]
    /\ UNCHANGED <<wire, loopVars, routerVars,
                   collab_sent, collab_ret, current_tasks, redis_client,
                   websocket_connections, taskVars, notifyVars, message_queue,
                   council_agents, session_memory, next_msg, arrivals>>

\* await asyncio.sleep(0.1) is over: back to the top of the loop.
MPSleepDone(a) ==
    /\ mp[a].pc = "sleep"
    /\ mp' = [mp EXCEPT ![a].pc = "get"]
    /\ UNCHANGED <<wire, loopVars, routerVars,
                   collabVars, status, current_tasks, redis_client,
                   websocket_connections,
                   taskVars, notifyVars, message_queue, council_agents,
                   session_memory, next_msg, arrivals, handled>>

\* Whether the message goes to handle_custom_message.
CustomType(m) ==
    m.message_type \notin {"collaboration_request", "data_share",
                           "task_delegation"}

\* The loop takes a message of another type and the subclass's override of
\* handle_custom_message raises: the loop logs the error and sleeps.
MPGetHookRaise(a) ==
    /\ mp[a].pc = "get"
    /\ message_queue[a] # <<>>
    /\ LET m == QueueGet(message_queue[a]) IN
       /\ CustomType(m)
       /\ message_queue' = [message_queue EXCEPT ![a] = QueueRest(@)]
       /\ mp' = [mp EXCEPT ![a] = LoopAfterError(a)]
       /\ handled' = [handled EXCEPT ![a] = StartedAndEnded(a, m)]
       /\ mp_errors' = [mp_errors EXCEPT ![a] = Append(@, m.id)]
    /\ UNCHANGED <<wire, hm, heartbeats, closing, routerVars,
                   collabVars, status, current_tasks, redis_client,
                   websocket_connections, taskVars, notifyVars,
                   council_agents, session_memory, next_msg, arrivals>>

\* ---------------------------------------------------------- _health_monitor
\* No heartbeat yet: the hash does not exist, no mapping was built.
NoRecord == [status |-> None, active_tasks |-> 0]

\* Faulty variant: the record does not count the tasks
HeartbeatStale(a) == [status |-> status[a], active_tasks |-> 0]

\* The mapping passed to hset: status and len(self.current_tasks), read when
\* the call is made.
HeartbeatRecord(a) ==
    [status |-> status[a], active_tasks |-> Cardinality(current_tasks[a])]

\* The heartbeats an agent's loop has attempted so far.
Beats(a) == hm[a].calls

\* The loop builds the record and calls redis_client.hset.
HeartbeatCall(a) ==
    /\ hm[a].pc = "beat"
    /\ Beats(a) < MaxBeats
    /\ hm' = [hm EXCEPT ![a] = [pc |-> "publish", record |-> HeartbeatRecord(a),
                                calls |-> Beats(a) + 1, failed |-> @.failed]]
    /\ UNCHANGED <<wire, mp_errors, heartbeats, closing, routerVars,
                   collabVars, status, current_tasks, redis_client,
                   websocket_connections, taskVars, notifyVars, mailVars>>

\* hset returns: the fields of the hash are overwritten with the record;
\* the loop sleeps.
HeartbeatReturn(a) ==
    /\ hm[a].pc = "publish"
    /\ heartbeats' = [heartbeats EXCEPT ![a] = hm[a].record]
    /\ hm' = [hm EXCEPT ![a].pc = "sleep", ![a].record = NoRecord]
    /\ UNCHANGED <<wire, mp_errors, closing, routerVars,
                   collabVars, status, current_tasks, redis_client,
                   websocket_connections, taskVars, notifyVars, mailVars>>

\* hset raises: the error is logged; the loop sleeps.
HeartbeatRaise(a) ==
    /\ hm[a].pc = "publish"
    /\ hm' = [hm EXCEPT ![a].pc = "sleep", ![a].record = NoRecord,
                        ![a].failed = Beats(a)]
    /\ UNCHANGED <<wire, mp_errors, heartbeats, closing, routerVars,
                   collabVars, status, current_tasks, redis_client,
                   websocket_connections, taskVars, notifyVars, mailVars>>

\* await asyncio.sleep(30) is over.
HeartbeatSleepDone(a) ==
    /\ hm[a].pc = "sleep"
    /\ hm' = [hm EXCEPT ![a].pc = "beat"]
    /\ UNCHANGED <<wire, mp_errors, heartbeats, closing, routerVars,
                   collabVars, status, current_tasks, redis_client,
                   websocket_connections, taskVars, notifyVars, mailVars>>

\* ------------------------------------------------------------------ shutdown
\* shutdown() is called: the status is set and the closing of the
\* connections is awaited.
ShutdownStart(a) ==
    /\ closing[a] = "no"
    /\ status' = [status EXCEPT ![a] = "offline"]
    /\ closing' = [closing EXCEPT ![a] = "closing"]
    /\ UNCHANGED <<wire, mp_errors, hm, heartbeats, routerVars,
                   collabVars, current_tasks, redis_client,
                   websocket_connections, taskVars, notifyVars, mailVars>>

\* The connections are closed and shutdown() returns.  Neither the
\* background loops nor the processing units are cancelled.
ShutdownDone(a) ==
    /\ closing[a] = "closing"
    /\ redis_client' = [redis_client EXCEPT
                          ![a] = IF @ = None THEN None ELSE "closed"]
    /\ closing' = [closing EXCEPT ![a] = "done"]
    /\ UNCHANGED <<wire, mp_errors, hm, heartbeats, routerVars,
                   collabVars, status, current_tasks,
                   websocket_connections, taskVars, notifyVars, mailVars>>

\* --------------------------------------------------------- collaborate_with
\* What an agent may ask of another: each agent has its own question.
CollabRequests(x) == {[query |-> "about", from |-> x]}

\* collaborate_with(agent_name, request) called on agent x: ValueError when
\* the name is not in x's directory; otherwise a collaboration_request with
\* a fresh id is put on the target's queue and the call returns None.
CollaborateWith(x, y, c) ==
    /\ IF y \notin council_agents[x]
       THEN /\ collab_ret' = [by |-> x, to |-> y, ret |-> "ValueError"]
            /\ UNCHANGED <<message_queue, arrivals, next_msg, collab_sent>>
       ELSE LET m == Message(next_msg, x, y, "collaboration_request", c) IN
            /\ next_msg <= MaxMsgs
            /\ message_queue' = [message_queue EXCEPT ![y] = Put(@, m)]
            /\ arrivals' = [arrivals EXCEPT ![y] = Append(@, m.id)]
            /\ next_msg' = next_msg + 1
            /\ collab_sent' = collab_sent \cup {m}
            /\ collab_ret' = [by |-> x, to |-> y, ret |-> None]
    /\ UNCHANGED <<wire, loopVars, routerVars,
                   status, current_tasks, redis_client, websocket_connections,
                   taskVars, notifyVars, council_agents, session_memory, mp,
                   handled, collab_log>>

\* ------------------------------------------------- assign_task, any caller
\* A caller passes a task object it holds to assign_task of an agent that
\* has not been given it yet, at any time: before, while or after another
\* agent processes it.
AssignAgain(a, t) ==
    /\ t \in Created
    /\ assign_ret[a][t] = None
    /\ AssignTaskBody(a, t, tasks[t])
    /\ UNCHANGED <<wire, loopVars, routerVars,
                   collabVars, redis_client, websocket_connections,
                   tasks, next_id, analyze_calls, notifyVars, mailVars>>

\* The delegation contents from which _handle_task_delegation builds a task.
WellFormedDelegations ==
    {c \in DelegationContents :
        "task_type" \in DOMAIN c /\ ValidPriority(PriorityOf(c))}

\* A task_delegation message is put on agent a's queue.
DeliverDelegation(a, c) == Deliver(a, <<"EXTERNAL", "task_delegation", c>>)

\* ------------------------------------------------------- AIServiceManager
agentVars == <<status, current_tasks, redis_client, websocket_connections,
               taskVars, notifyVars, mailVars, collabVars, loopVars>>

\* QueryType (Enum)
QueryType == {"analysis", "reasoning", "creative", "technical",
              "investigation", "generation"}

\* _initialize_routing_rules()
RoutingRules(qt) ==
    CASE qt = "analysis" -> <<"claude", "chatgpt", "gemini">>
      [] qt = "reasoning" -> <<"claude", "chatgpt", "local">>
      [] qt = "creative" -> <<"chatgpt", "gemini", "claude">>
      [] qt = "technical" -> <<"claude", "chatgpt", "local">>
      [] qt = "investigation" -> <<"claude", "chatgpt", "gemini">>
      [] qt = "generation" -> <<"chatgpt", "gemini", "local">>
      [] OTHER -> <<>>

\* The order in which initialize() inserts the providers: the order in which
\* self.providers.items() yields them.
ProviderOrder == <<"claude", "chatgpt", "gemini", "local">>

\* The configurations initialize() may be given: the providers that have a key.
Configs == SUBSET AIProvider

\* dict[key] = value
DictPut(d, k, v) == [q \in DOMAIN d \cup {k} |-> IF q = k THEN v ELSE d[q]]

\* self.health_status.get(p, False)
HealthGet(p) == IF p \in DOMAIN health_status THEN health_status[p] ELSE FALSE

\* initialize(config): the configured providers are registered, then the
\* health check of all providers starts.
RouterInitialize(cfg) ==
    /\ providers = {}
    /\ sweep = <<>>
    /\ cfg # {}
    /\ providers' = cfg
    /\ sweep' = SelectSeq(ProviderOrder, LAMBDA p : p \in cfg)
    /\ UNCHANGED <<wire, agentVars, health_status, performance_metrics, rq, queries,
                   recorded, rq2,
                   probe>>

\* What a provider's health_check() may do.
ProbeOutcomes == {"True", "False", "raise"}

\* self.health_status[provider_type] = is_healthy, and False in the except
HealthAfterProbe(h, p, r) == DictPut(h, p, r = "True")

\* for provider_type, provider in self.providers.items(): the providers the
\* loop still visits.  The dict iterator raises RuntimeError (dictionary
\* changed size during iteration) once shutdown has cleared the dict, and
\* that error ends _health_check_all.
RemainingSweep(s) == IF Head(s) \in providers THEN Tail(s) ELSE <<>>

\* One iteration of _health_check_all: the probe of the next provider
\* returns a boolean, or raises and the provider is marked unhealthy.
HealthProbe(r) ==
    /\ sweep # <<>>
    /\ health_status' = HealthAfterProbe(health_status, Head(sweep), r)
    /\ probe' = [provider |-> Head(sweep), outcome |-> r]
    /\ sweep' = RemainingSweep(sweep)
    /\ UNCHANGED <<wire, agentVars, providers, performance_metrics, rq, queries,
                   recorded, rq2>>

\* _health_check_all() is awaited again, by a caller other than initialize:
\* the probe of the first registered provider starts.
HealthCheckAll ==
    /\ sweep = <<>>
    /\ providers # {}
    /\ sweep' = SelectSeq(ProviderOrder, LAMBDA p : p \in providers)
    /\ UNCHANGED <<wire, agentVars, providers, health_status,
                   performance_metrics, rq, queries, recorded, rq2, probe>>

\* shutdown(): self.providers.clear(); self.health_status.clear()
RouterShutdown ==
    /\ providers # {}
    /\ providers' = {}
    /\ health_status' = [p \in {} |-> FALSE]
    /\ UNCHANGED <<wire, agentVars, performance_metrics, sweep, rq, queries,
                   recorded, rq2, probe>>

\* The AIResponse objects a provider's query may return: confidence in
\* hundredths, processing time and cost in whole units.
Responses(p) ==
    { [provider |-> p, confidence |-> 90, processing_time |-> 2, cost |-> 1],
      [provider |-> p, confidence |-> 70, processing_time |-> 3, cost |-> 0] }

RECURSIVE GCD(_, _)
GCD(a, b) == IF b = 0 THEN a ELSE GCD(b, a % b)

\* A fraction in lowest terms: the exact value of a float quotient.
Fraction(n, d) == [num |-> n \div GCD(n, d), den |-> d \div GCD(n, d)]

\* Faulty variant: the new value is averaged with the old average
HalfwayMean(avg, n, c) == Fraction(avg.num + c * avg.den, avg.den * 2)

\* (current_avg * (total_queries - 1) + confidence) / total_queries
IncrementalMean(avg, n, c) ==
    Fraction(avg.num * (n - 1) + c * avg.den, avg.den * n)

\* The metrics entry created for a provider that has none.
NewMetrics == [total_queries |-> 0, total_time |-> 0, total_cost |-> 0,
               average_confidence |-> Fraction(0, 1)]

\* Faulty variant: the entry is rebuilt from the response alone, as when an
\* update starts from a fresh entry instead of the stored one
UpdateOverwriting(pm, p, resp) ==
    DictPut(pm, p, [total_queries |-> 1,
                    total_time |-> resp.processing_time,
                    total_cost |-> resp.cost,
                    average_confidence |-> Fraction(resp.confidence, 1)])

\* Faulty variant: latency and cost hold the last response's values
UpdateLatest(pm, p, resp) ==
    LET old == IF p \in DOMAIN pm THEN pm[p] ELSE NewMetrics
        n == old.total_queries + 1
    IN DictPut(pm, p,
               [total_queries |-> n,
                total_time |-> resp.processing_time,
                total_cost |-> resp.cost,
                average_confidence |->
                    IncrementalMean(old.average_confidence, n, resp.confidence)])

\* _update_performance_metrics(provider_type, response)
UpdatePerformanceMetrics(pm, p, resp) ==
    LET old == IF p \in DOMAIN pm THEN pm[p] ELSE NewMetrics
        n == old.total_queries + 1
    IN DictPut(pm, p,
               [total_queries |-> n,
                total_time |-> old.total_time + resp.processing_time,
                total_cost |-> old.total_cost + resp.cost,
                average_confidence |->
                    IncrementalMean(old.average_confidence, n, resp.confidence)])

\* Faulty variant: the filter keeps every provider of the list
AvailableAll(list) == list

\* Faulty variant: the filter ignores the health flags
AvailableRegistered(list) == SelectSeq(list, LAMBDA p : p \in providers)

\* [p for p in provider_priorities
\*    if p in self.providers and self.health_status.get(p, False)]
AvailableProviders(list) ==
    SelectSeq(list, LAMBDA p : p \in providers /\ HealthGet(p))

\* return response
Returned(resp) ==
    [kind |-> "response", provider |-> resp.provider, error |-> None,
     cause |-> None, confidence |-> resp.confidence,
     processing_time |-> resp.processing_time, cost |-> resp.cost]

\* raise: the exception that reaches the caller, and the provider failure it
\* is or names.
Raised(e, p) ==
    [kind |-> "error", provider |-> None, error |-> e, cause |-> p,
     confidence |-> 0, processing_time |-> 0, cost |-> 0]

\* Lines 447-464: the category's list is filtered; with no candidate the call
\* raises, otherwise the first candidate's query is awaited.
EnterList(call) ==
    LET cand == AvailableProviders(RoutingRules(call.query_type)) IN
    IF cand = <<>>
    THEN [call EXCEPT !.pc = "done",
                      !.outcome = Raised("No healthy AI providers available", None)]
    ELSE [call EXCEPT !.pc = "list", !.candidates = cand, !.pos = 1,
                      !.attempts = Append(@, cand[1])]

\* Faulty variant: the preferred provider is tried whatever its health
PreferredAlways(pref) == pref # None

\* context.preferred_provider and context.preferred_provider in self.providers
\* and self.health_status.get(context.preferred_provider, False)
PreferredUsable(pref) ==
    pref # None /\ pref \in providers /\ HealthGet(pref)

\* route_query up to its first await: the preferred provider's query when
\* the hint is usable, otherwise the category's list.
StartCall(qt, pref, fb) ==
    LET call == [NoCall EXCEPT !.query_type = qt, !.preferred = pref,
                               !.fallback = fb]
    IN IF PreferredUsable(pref)
       THEN [call EXCEPT !.pc = "preferred", !.attempts = <<pref>>]
       ELSE EnterList(call)

\* route_query(prompt, context, system_prompt, fallback) is called and runs
\* to its first await, or to its end when nothing can be queried.
RouteQuery(qt, pref, fb) ==
    /\ rq.pc \in {"idle", "done"}
    /\ queries < MaxQueries
    /\ queries' = queries + 1
    /\ rq' = StartCall(qt, pref, fb)
    /\ UNCHANGED <<wire, agentVars, providers, health_status, performance_metrics,
                   sweep, recorded, rq2, probe>>

\* The preferred provider's query returns: its response is returned as is.
PreferredReturn(resp) ==
    /\ rq.pc = "preferred"
    /\ resp \in Responses(rq.preferred)
    /\ rq' = [rq EXCEPT !.pc = "done", !.outcome = Returned(resp)]
    /\ UNCHANGED <<wire, agentVars, providers, health_status, performance_metrics,
                   sweep, queries, recorded, rq2, probe>>

\* Faulty variant: a failure of the preferred provider always propagates
PropagateAlways(fb) == TRUE

\* if not fallback: raise
Propagate(fb) == ~ fb

\* The preferred provider's query raised: the failure propagates when
\* fallback is off, otherwise routing goes on with the category's list.
AfterPreferredRaise(call) ==
    IF Propagate(call.fallback)
    THEN [call EXCEPT !.pc = "done",
                      !.outcome = Raised("provider error", call.preferred)]
    ELSE EnterList(call)

PreferredRaise ==
    /\ rq.pc = "preferred"
    /\ rq' = AfterPreferredRaise(rq)
    /\ UNCHANGED <<wire, agentVars, providers, health_status, performance_metrics,
                   sweep, queries, recorded, rq2, probe>>

\* The current candidate's query returns: metrics are updated and the
\* response is returned.
ListReturn(resp) ==
    /\ rq.pc = "list"
    /\ resp \in Responses(rq.candidates[rq.pos])
    /\ performance_metrics' =
          UpdatePerformanceMetrics(performance_metrics, resp.provider, resp)
    /\ recorded' = [recorded EXCEPT ![resp.provider] = Append(@, resp.confidence)]
    /\ rq' = [rq EXCEPT !.pc = "done", !.outcome = Returned(resp)]
    /\ UNCHANGED <<wire, agentVars, providers, health_status, sweep, queries,
                   rq2, probe>>

\* Faulty variant: the aggregate error names the first candidate
FirstCandidate(call) == call.candidates[1]

\* last_error = e
LastError(call) == call.candidates[call.pos]

\* provider = self.providers[provider_type], inside the try: a candidate
\* that shutdown has unregistered since the list was filtered raises KeyError
\* at once and the loop goes on.  The positions of the later candidates that
\* are still registered.
StillRegistered(call) ==
    { i \in (call.pos + 1)..Len(call.candidates) :
         call.candidates[i] \in providers }

\* The loop over the candidates has no further provider to query.
LastCandidate(call) == StillRegistered(call) = {}

\* The current candidate's query raised: the next candidate still registered
\* is queried, and when there is none the aggregate error is raised with the
\* last failure.
AfterListRaise(call) ==
    IF LastCandidate(call)
    THEN LET end == [call EXCEPT !.pos = Len(call.candidates)]
         IN [end EXCEPT !.pc = "done", !.last_error = LastError(end),
                        !.outcome = Raised("All AI providers failed",
                                           LastError(end))]
    ELSE LET i == CHOOSE j \in StillRegistered(call) :
                      \A k \in StillRegistered(call) : j <= k
         IN [call EXCEPT !.pos = i,
                         !.last_error = LastError([call EXCEPT !.pos = i - 1]),
                         !.attempts = Append(@, call.candidates[i])]

\* Faulty variant: the provider whose query raised is marked unhealthy
ListRaiseMarking ==
    /\ rq.pc = "list"
    /\ rq' = AfterListRaise(rq)
    /\ health_status' = DictPut(health_status, rq.candidates[rq.pos], FALSE)
    /\ UNCHANGED <<wire, agentVars, providers, performance_metrics, sweep,
                   queries, recorded, rq2, probe>>

\* except Exception as e: last_error = e; continue
ListRaise ==
    /\ rq.pc = "list"
    /\ rq' = AfterListRaise(rq)
    /\ UNCHANGED <<wire, agentVars, providers, health_status, performance_metrics,
                   sweep, queries, recorded, rq2, probe>>

\* A second route_query call is made while the first is in progress.
ConcurrentRouteQuery(qt, pref, fb) ==
    /\ rq.pc \in {"preferred", "list"}
    /\ rq2.pc \in {"idle", "done"}
    /\ queries < MaxQueries
    /\ queries' = queries + 1
    /\ rq2' = StartCall(qt, pref, fb)
    /\ UNCHANGED <<wire, agentVars, providers, health_status, performance_metrics,
                   sweep, recorded, rq, probe>>

\* The steps of the second call: those of the first.
ConcurrentPreferredReturn(resp) ==
    /\ rq2.pc = "preferred"
    /\ resp \in Responses(rq2.preferred)
    /\ rq2' = [rq2 EXCEPT !.pc = "done", !.outcome = Returned(resp)]
    /\ UNCHANGED <<wire, agentVars, providers, health_status, performance_metrics,
                   sweep, queries, recorded, rq, probe>>

ConcurrentPreferredRaise ==
    /\ rq2.pc = "preferred"
    /\ rq2' = AfterPreferredRaise(rq2)
    /\ UNCHANGED <<wire, agentVars, providers, health_status, performance_metrics,
                   sweep, queries, recorded, rq, probe>>

ConcurrentListReturn(resp) ==
    /\ rq2.pc = "list"
    /\ resp \in Responses(rq2.candidates[rq2.pos])
    /\ performance_metrics' =
          UpdatePerformanceMetrics(performance_metrics, resp.provider, resp)
    /\ recorded' = [recorded EXCEPT ![resp.provider] = Append(@, resp.confidence)]
    /\ rq2' = [rq2 EXCEPT !.pc = "done", !.outcome = Returned(resp)]
    /\ UNCHANGED <<wire, agentVars, providers, health_status, sweep, queries,
                   rq, probe>>

ConcurrentListRaise ==
    /\ rq2.pc = "list"
    /\ rq2' = AfterListRaise(rq2)
    /\ UNCHANGED <<wire, agentVars, providers, health_status, performance_metrics,
                   sweep, queries, recorded, rq, probe>>

\* ------------------------------------------------------ message wire shape
\* Python values, tagged with their type.  Numbers are written as numerals.
PyStr(x) == [t |-> "str", v |-> x]
PyInt(x) == [t |-> "int", v |-> x]
PyBool(x) == [t |-> "bool", v |-> x]
PyNone == [t |-> "NoneType", v |-> "None"]
PyList(items) == [t |-> "list", v |-> items]
PyTuple(items) == [t |-> "tuple", v |-> items]
\* A dict: its <<key, value>> items in insertion order.
PyDict(items) == [t |-> "dict", v |-> items]

\* JSON values, as json.dumps writes them and json.loads reads them.
JsonString(x) == [j |-> "string", v |-> x]
JsonNumber(x) == [j |-> "number", v |-> x]
JsonLiteral(x) == [j |-> "literal", v |-> x]
JsonArray(items) == [j |-> "array", v |-> items]
\* An object: its <<name, value>> members, the names being strings.
JsonObject(members) == [j |-> "object", v |-> members]

\* json.dumps on a dict key: str as is; int, bool and None as their text.
KeyToJson(k) ==
    CASE k.t = "str" -> k.v
      [] k.t = "int" -> k.v
      [] k.t = "bool" -> IF k.v = "True" THEN "true" ELSE "false"
      [] OTHER -> "null"

\* json.dumps: list and tuple both become an array, every dict key a string.
RECURSIVE JsonDumps(_)
JsonDumps(x) ==
    CASE x.t = "str" -> JsonString(x.v)
      [] x.t = "int" -> JsonNumber(x.v)
      [] x.t = "bool" -> JsonLiteral(IF x.v = "True" THEN "true" ELSE "false")
      [] x.t = "NoneType" -> JsonLiteral("null")
      [] x.t \in {"list", "tuple"} ->
             JsonArray([i \in DOMAIN x.v |-> JsonDumps(x.v[i])])
      [] OTHER ->
             JsonObject([i \in DOMAIN x.v |->
                            <<KeyToJson(x.v[i][1]), JsonDumps(x.v[i][2])>>])

\* json.loads: an array becomes a list, an object a dict with str keys.
RECURSIVE JsonLoads(_)
JsonLoads(y) ==
    CASE y.j = "string" -> PyStr(y.v)
      [] y.j = "number" -> PyInt(y.v)
      [] y.j = "literal" ->
             IF y.v = "null" THEN PyNone
             ELSE PyBool(IF y.v = "true" THEN "True" ELSE "False")
      [] y.j = "array" -> PyList([i \in DOMAIN y.v |-> JsonLoads(y.v[i])])
      [] OTHER ->
             PyDict([i \in DOMAIN y.v |->
                        <<PyStr(y.v[i][1]), JsonLoads(y.v[i][2])>>])

\* datetime values: seconds, microseconds and UTC offset (None when naive).
Timestamps ==
    [second : {"2024-01-01T00:00:00", "2024-06-30T23:59:59"},
     microsecond : {"0", "250000"},
     tzinfo : {None, "+00:00"}]

\* datetime.isoformat(): the fraction is left out when microsecond is 0,
\* the offset when the value is naive.
IsoFormat(d) ==
    [seconds |-> d.second,
     fraction |-> IF d.microsecond = "0" THEN "" ELSE d.microsecond,
     offset |-> IF d.tzinfo = None THEN "" ELSE d.tzinfo]

\* Faulty variant: the fraction of a second is not read back
FromIsoFormatNoFraction(text) ==
    [second |-> text.seconds, microsecond |-> "0",
     tzinfo |-> IF text.offset = "" THEN None ELSE text.offset]

\* datetime.fromisoformat(): no fraction is microsecond 0, no offset is naive.
FromIsoFormat(text) ==
    [second |-> text.seconds,
     microsecond |-> IF text.fraction = "" THEN "0" ELSE text.fraction,
     tzinfo |-> IF text.offset = "" THEN None ELSE text.offset]

\* The members of the Priority enum, by name.
PriorityNames == {"LOW", "MEDIUM", "HIGH", "CRITICAL", "EMERGENCY"}

\* message.priority.value
PriorityValue(prio) ==
    CASE prio = "LOW" -> LOW
      [] prio = "MEDIUM" -> MEDIUM
      [] prio = "HIGH" -> HIGH
      [] prio = "CRITICAL" -> CRITICAL
      [] OTHER -> EMERGENCY

\* Priority(obj["priority"]): the member that has this value.
PriorityFromValue(v) == CHOOSE prio \in PriorityNames : PriorityValue(prio) = v

\* Message contents that json.dumps accepts.
WireContents ==
    { PyDict(<< >>),
      PyDict(<< <<PyStr("q"), PyStr("test")>> >>),
      PyDict(<< <<PyStr("n"), PyInt("1")>>, <<PyStr("ok"), PyBool("True")>>,
                <<PyStr("x"), PyNone>> >>),
      PyDict(<< <<PyStr("xs"), PyList(<<PyInt("1"), PyStr("a")>>)>> >>),
      PyDict(<< <<PyStr("in"), PyDict(<< <<PyStr("k"), PyList(<< >>)>> >>)>> >>),
      PyDict(<< <<PyStr("at"), PyTuple(<<PyInt("1"), PyInt("2")>>)>> >>),
      PyDict(<< <<PyStr("by"), PyDict(<< <<PyInt("1"), PyStr("a")>> >>)>> >>) }

\* The AgentMessage objects put on the wire.
WireMessages ==
    [id : {"m1"}, sender : {"ORACLE"}, recipient : {"ATLAS"},
     message_type : {"collaboration_request", "data_share"},
     content : WireContents, timestamp : Timestamps,
     priority : PriorityNames]

\* serialize_agent_message(message): the JSON text, as the value it denotes.
SerializeAgentMessage(msg) ==
    [id |-> JsonString(msg.id), sender |-> JsonString(msg.sender),
     recipient |-> JsonString(msg.recipient),
     message_type |-> JsonString(msg.message_type),
     content |-> JsonDumps(msg.content),
     timestamp |-> IsoFormat(msg.timestamp),
     priority |-> PriorityValue(msg.priority)]

\* deserialize_agent_message(data)
DeserializeAgentMessage(obj) ==
    [id |-> JsonLoads(obj.id).v, sender |-> JsonLoads(obj.sender).v,
     recipient |-> JsonLoads(obj.recipient).v,
     message_type |-> JsonLoads(obj.message_type).v,
     content |-> JsonLoads(obj.content),
     timestamp |-> FromIsoFormat(obj.timestamp),
     priority |-> PriorityFromValue(obj.priority)]

\* A message is serialized for transmission.
Serialize(msg) ==
    /\ wire.pc \in {"idle", "received"}
    /\ wire' = [pc |-> "sent", msg |-> msg, text |-> SerializeAgentMessage(msg)]
    /\ UNCHANGED <<agentVars, routerVars>>

\* The text is deserialized at the other end.
Deserialize ==
    /\ wire.pc = "sent"
    /\ wire' = [pc |-> "received", msg |-> wire.msg, text |-> wire.text,
                back |-> DeserializeAgentMessage(wire.text)]
    /\ UNCHANGED <<agentVars, routerVars>>

\* ------------------------------------------------------------------ spec
Next ==
    \/ \E a \in Agents : Initialize(a)
    \/ \E a \in Agents, tt \in TaskTypes : AssignNewTask(a, tt)
    \/ \E a \in Agents, t \in TaskIds : ReassignTask(a, t)
    \/ \E t \in TaskIds : ProcessStart(t)
    \/ \E t \in TaskIds : AnalyzeRaise(t)
    \/ \E t \in TaskIds : AnalyzeReturn(t)
    \/ \E t \in TaskIds : PublishRaise(t)
    \/ \E t \in TaskIds : PublishReturn(t)

\* The task lifecycle of the agents, with no WebSocket client subscribed.
Spec == Init /\ [][Next]_vars

\* The task lifecycle with WebSocket clients subscribing and leaving.
NextNotify ==
    \/ Next
    \/ \E a \in Agents, w \in WS : AddWebsocketClient(a, w)
    \/ \E a \in Agents, w \in WS : RemoveWebsocketClient(a, w)

SpecNotify == Init /\ [][NextNotify]_vars

\* The mailbox: messages arrive, the loop handles them, and the tasks that
\* delegations create are processed.
NextMailbox ==
    \/ \E a \in Agents : Initialize(a)
    \/ \E a \in Agents : RegisterWithCouncil(a)
    \/ \E a \in Agents, pl \in Payloads : Deliver(a, pl)
    \/ \E a \in Agents : MPGet(a)
    \/ \E a \in Agents : MPCollabReturn(a)
    \/ \E a \in Agents : MPCollabRaise(a)
    \/ \E a \in Agents : MPSleepDone(a)
    \/ \E t \in TaskIds : ProcessStart(t)
    \/ \E t \in TaskIds : AnalyzeRaise(t)
    \/ \E t \in TaskIds : AnalyzeReturn(t)
    \/ \E t \in TaskIds : PublishRaise(t)
    \/ \E t \in TaskIds : PublishReturn(t)

SpecMailbox == Init /\ [][NextMailbox]_vars

\* Agents ask each other for collaboration through their directories.
NextCollab ==
    \/ \E a \in Agents : Initialize(a)
    \/ \E a \in Agents : RegisterWithCouncil(a)
    \/ \E x \in Agents, y \in Agents :
          \E c \in CollabRequests(x) : CollaborateWith(x, y, c)
    \/ \E a \in Agents : MPGet(a)
    \/ \E a \in Agents : MPCollabReturn(a)
    \/ \E a \in Agents : MPCollabRaise(a)
    \/ \E a \in Agents : MPSleepDone(a)

SpecCollab == Init /\ [][NextCollab]_vars

\* The data_share messages that arrive: from an agent, from a sender whose
\* name holds an underscore and from one whose name is its first part.
SharePayloads ==
    {<<snd, "data_share", d>> : snd \in {"ATLAS", "FIELD_UNIT", "FIELD"},
                                d \in {"d", "e"}}

\* Data is shared with agents whose mailbox loop runs.
NextShare ==
    \/ \E a \in Agents : Initialize(a)
    \/ \E a \in Agents, pl \in SharePayloads : Deliver(a, pl)
    \/ \E a \in Agents : MPGet(a)
    \/ \E a \in Agents : MPSleepDone(a)

SpecShare == Init /\ [][NextShare]_vars

\* A collaboration request that arrives from outside the council.
CollabPayloads == {<<"EXTERNAL", "collaboration_request", "q">>}

\* The interplay of tasks and collaboration is within one agent: the agent
\* followed.
BusyAgents == {"ORACLE"}

\* Tasks are assigned by callers and processed while collaboration requests
\* arrive and are handled by the same agent.
NextBusy ==
    \/ \E a \in BusyAgents : Initialize(a)
    \/ \E a \in BusyAgents, tt \in TaskTypes : AssignNewTask(a, tt)
    \/ \E a \in BusyAgents, pl \in CollabPayloads : Deliver(a, pl)
    \/ \E a \in BusyAgents : MPGet(a)
    \/ \E a \in BusyAgents : MPCollabReturn(a)
    \/ \E a \in BusyAgents : MPCollabRaise(a)
    \/ \E a \in BusyAgents : MPSleepDone(a)
    \/ \E t \in TaskIds : ProcessStart(t)
    \/ \E t \in TaskIds : AnalyzeRaise(t)
    \/ \E t \in TaskIds : AnalyzeReturn(t)
    \/ \E t \in TaskIds : PublishRaise(t)
    \/ \E t \in TaskIds : PublishReturn(t)

SpecBusy == Init /\ [][NextBusy]_vars

\* The agent of SpecBusy is also shut down, at any moment.
NextShutdown ==
    \/ NextBusy
    \/ \E a \in BusyAgents : ShutdownStart(a)
    \/ \E a \in BusyAgents : ShutdownDone(a)

SpecShutdown == Init /\ [][NextShutdown]_vars

\* The heartbeat loop of an agent whose tasks are processed and whose
\* mailbox takes a collaboration request whose analyze does not return.
NextHeartbeat ==
    \/ \E a \in BusyAgents : Initialize(a)
    \/ \E a \in BusyAgents : \E tt \in SupportedTasks(a) : AssignNewTask(a, tt)
    \/ \E a \in BusyAgents, pl \in CollabPayloads :
          arrivals[a] = <<>> /\ Deliver(a, pl)
    \/ \E a \in BusyAgents : MPGet(a)
    \/ \E t \in TaskIds : ProcessStart(t)
    \/ \E t \in TaskIds : AnalyzeReturn(t)
    \/ \E t \in TaskIds : PublishReturn(t)
    \/ \E a \in BusyAgents : HeartbeatCall(a)
    \/ \E a \in BusyAgents : HeartbeatReturn(a)
    \/ \E a \in BusyAgents : HeartbeatRaise(a)
    \/ \E a \in BusyAgents : HeartbeatSleepDone(a)

SpecHeartbeat == Init /\ [][NextHeartbeat]_vars

\* A step of agent a's heartbeat loop.
HeartbeatStep(a) ==
    \/ HeartbeatCall(a)
    \/ HeartbeatReturn(a) \/ HeartbeatRaise(a)
    \/ HeartbeatSleepDone(a)

\* Only the heartbeat loops are fair: the event loop runs them when their
\* sleep is over and hset returns or raises.  The mailbox loop and the
\* processing units may stay where they are for ever.
FairSpecHeartbeat ==
    SpecHeartbeat /\ \A a \in BusyAgents : WF_vars(HeartbeatStep(a))

\* Messages that no handler takes without an error or without the hook: an
\* unknown type, a delegation whose priority is no Priority value, and a
\* collaboration request (whose analyze may raise).
LoopPayloads ==
    { <<"EXTERNAL", "status_ping", "p">>,
      <<"EXTERNAL", "task_delegation",
        [task_type |-> "location_extraction", priority |-> 9]>>,
      <<"EXTERNAL", "collaboration_request", "q">> }

\* The mailbox loop with messages whose handling fails.
NextLoop ==
    \/ \E a \in Agents : Initialize(a)
    \/ \E a \in Agents, pl \in LoopPayloads : Deliver(a, pl)
    \/ \E a \in Agents : MPGet(a)
    \/ \E a \in Agents : MPGetHookRaise(a)
    \/ \E a \in Agents : MPCollabReturn(a)
    \/ \E a \in Agents : MPCollabRaise(a)
    \/ \E a \in Agents : MPSleepDone(a)

SpecLoop == Init /\ [][NextLoop]_vars

\* The query types and preferred-provider hints that callers pass.
CallQueryTypes == {"analysis", "creative", "generation"}

Hints == AIProvider \cup {None}

\* The provider router: initialization with its health check, and
\* route_query calls made one after the other.
NextRouter ==
    \/ \E cfg \in Configs : RouterInitialize(cfg)
    \/ \E r \in ProbeOutcomes : HealthProbe(r)
    \/ \E qt \in CallQueryTypes, pref \in Hints, fb \in BOOLEAN :
          RouteQuery(qt, pref, fb)
    \/ \E p \in AIProvider : \E resp \in Responses(p) : PreferredReturn(resp)
    \/ PreferredRaise
    \/ \E p \in AIProvider : \E resp \in Responses(p) : ListReturn(resp)
    \/ ListRaise

SpecRouter == Init /\ [][NextRouter]_vars

\* The configuration, query type and hints of the runs with sweeps, shutdown
\* and concurrent calls.
FewConfigs == {{"claude", "chatgpt"}}

FewQueryTypes == {"analysis", "creative"}

FewHints == {None, "chatgpt"}

\* The provider router over its life: initialization, further health
\* sweeps, route_query calls made one after the other, and shutdown at any
\* moment, also while a sweep or a call is in progress.
NextRouterLife ==
    \/ \E cfg \in FewConfigs : RouterInitialize(cfg)
    \/ HealthCheckAll
    \/ \E r \in ProbeOutcomes : HealthProbe(r)
    \/ RouterShutdown
    \/ \E qt \in FewQueryTypes, pref \in FewHints, fb \in BOOLEAN :
          RouteQuery(qt, pref, fb)
    \/ \E p \in AIProvider : \E resp \in Responses(p) : PreferredReturn(resp)
    \/ PreferredRaise
    \/ \E p \in AIProvider : \E resp \in Responses(p) : ListReturn(resp)
    \/ ListRaise

SpecRouterLife == Init /\ [][NextRouterLife]_vars

\* Two route_query calls in progress at the same time.
NextConcurrent ==
    \/ \E cfg \in FewConfigs : RouterInitialize(cfg)
    \/ \E r \in ProbeOutcomes : HealthProbe(r)
    \/ \E qt \in FewQueryTypes, pref \in FewHints, fb \in BOOLEAN :
          \/ RouteQuery(qt, pref, fb)
          \/ ConcurrentRouteQuery(qt, pref, fb)
    \/ \E p \in AIProvider : \E resp \in Responses(p) :
          \/ PreferredReturn(resp)
          \/ ListReturn(resp)
          \/ ConcurrentPreferredReturn(resp)
          \/ ConcurrentListReturn(resp)
    \/ PreferredRaise
    \/ ListRaise
    \/ ConcurrentPreferredRaise
    \/ ConcurrentListRaise

SpecConcurrent == Init /\ [][NextConcurrent]_vars

\* Tasks are assigned and assigned again to any agent, and delegated by
\* message.
NextShared ==
    \/ \E a \in Agents : Initialize(a)
    \/ \E a \in Agents, tt \in TaskTypes : AssignNewTask(a, tt)
    \/ \E a \in Agents, t \in TaskIds : AssignAgain(a, t)
    \/ \E a \in Agents, c \in WellFormedDelegations : DeliverDelegation(a, c)
    \/ \E a \in Agents : MPGet(a)
    \/ \E a \in Agents : MPSleepDone(a)
    \/ \E t \in TaskIds : ProcessStart(t)
    \/ \E t \in TaskIds : AnalyzeRaise(t)
    \/ \E t \in TaskIds : AnalyzeReturn(t)
    \/ \E t \in TaskIds : PublishRaise(t)
    \/ \E t \in TaskIds : PublishReturn(t)

SpecShared == Init /\ [][NextShared]_vars

\* Messages cross a process boundary in their wire shape.
NextWire ==
    \/ \E msg \in WireMessages : Serialize(msg)
    \/ Deserialize

SpecWire == Init /\ [][NextWire]_vars

\* A step of one agent's mailbox loop.
MailboxStep(a) ==
    \/ MPGet(a)
    \/ MPCollabReturn(a) \/ MPCollabRaise(a)
    \/ MPSleepDone(a)

\* Every mailbox loop makes progress: the event loop runs it when a message
\* is waiting or its sleep is over, and analyze returns or raises.
FairSpecCollab == SpecCollab /\ \A a \in Agents : WF_vars(MailboxStep(a))

\* A step of agent a's mailbox loop, with hooks that may raise.
LoopStep(a) == MailboxStep(a) \/ MPGetHookRaise(a)

\* Every mailbox loop makes progress, and analyze returns or raises.
FairSpecLoop == SpecLoop /\ \A a \in Agents : WF_vars(LoopStep(a))

\* A step of one task's processing unit.  At most one stage of a unit is
\* enabled at a time.
UnitStep(t) ==
    \/ ProcessStart(t)
    \/ AnalyzeReturn(t) \/ AnalyzeRaise(t)
    \/ PublishReturn(t) \/ PublishRaise(t)

\* One task's processing unit makes progress: the event loop runs it once
\* scheduled, analyze returns or raises, and the publish returns or raises.
FairTask(t) == WF_vars(UnitStep(t))

\* The ids of the tasks that callers build and assign (Spec has no others).
CallerTaskIds == 1..MaxTasks

\* Every unit is fair.
FairSpec == Spec /\ \A t \in CallerTaskIds : FairTask(t)

\* Only the second task's unit is fair: the first may stay in analyze for ever.
FairSpecSecond == Spec /\ FairTask(2)

\* ================================================================ claims
Terminal(t) == tasks[t].status \in {"completed", "failed"}

EventsOf(t) == {i \in DOMAIN completions : completions[i].task_id = t}

\* C1: every task that assign_task accepted eventually has a terminal status
\* and is eventually absent from the agent's current-task table, when analyze
\* eventually returns or raises.
C1_AcceptedTaskTerminates ==
    \A t \in CallerTaskIds :
        (\E a \in Agents : assign_ret[a][t] = "True") ~>
            (/\ Terminal(t)
             /\ \A a \in Agents :
                    assign_ret[a][t] = "True" => t \notin current_tasks[a])

C1_Witness ==
    \E a \in Agents, t \in TaskIds :
        /\ assign_ret[a][t] = "True"
        /\ Terminal(t)
        /\ proc[t] = "done"
        /\ t \notin current_tasks[a]

\* C2: a task's status moves only pending -> in_progress -> completed or
\* pending -> in_progress -> failed, and a terminal status never changes.
C2_StatusPath ==
    [][\A t \in TaskIds :
          tasks'[t].status # tasks[t].status =>
              <<tasks[t].status, tasks'[t].status>> \in
                  {<<"pending", "in_progress">>, <<"in_progress", "completed">>,
                   <<"in_progress", "failed">>}]_vars

\* C3: assign_task with a task of unsupported type returns False and leaves
\* the agent statuses, the current-task tables and the processing units as
\* they were.
C3_RejectionChangesNothing ==
    [][\A a \in Agents, t \in TaskIds :
          (/\ assign_ret[a][t] = None
           /\ assign_ret'[a][t] # None
           /\ tasks'[t].task_type \notin SupportedTasks(a))
          => /\ assign_ret'[a][t] = "False"
             /\ status' = status
             /\ current_tasks' = current_tasks
             /\ proc' = proc]_vars

C3_Witness ==
    \E a \in Agents, t \in TaskIds :
        /\ assign_ret[a][t] = "False"
        /\ tasks[t].task_type \notin SupportedTasks(a)
        /\ status[a] = "working"
        /\ current_tasks[a] # {}
        /\ proc[t] = "none"

\* C4: when assign_task returns True the task is in the current-task table,
\* the agent's status is working, and analyze has not been run for the task:
\* its unit is only scheduled.
C4_AcceptedOnReturn ==
    [][\A a \in Agents, t \in TaskIds :
          (assign_ret[a][t] = None /\ assign_ret'[a][t] = "True")
          => /\ t \in current_tasks'[a]
             /\ status'[a] = "working"
             /\ proc'[t] = "scheduled"
             /\ analyze_calls'[t] = 0
             /\ tasks'[t].status = "pending"]_vars

C4_Witness ==
    \E a \in Agents, t \in TaskIds :
        /\ assign_ret[a][t] = "True"
        /\ proc[t] = "scheduled"
        /\ t \in current_tasks[a]
        /\ status[a] = "working"

\* C5: a task has a result only if its status is completed and an error only
\* if its status is failed; a finished task whose analyze returned is
\* completed with progress 100, and one whose analyze raised is failed with
\* an error and no result.
C5_ResultAndErrorMatchStatus ==
    \A t \in TaskIds :
        /\ tasks[t].result # None => tasks[t].status = "completed"
        /\ tasks[t].error # None => tasks[t].status = "failed"
        /\ tasks[t].status = "completed" =>
               tasks[t].progress = 100 /\ tasks[t].result # None
        /\ tasks[t].status = "failed" =>
               tasks[t].error # None /\ tasks[t].result = None

\* C6: for every accepted task whose unit is over, completed or failed,
\* exactly one completion event carrying the agent, the task id and the
\* task's final status is on the completion channel.
C6_OneCompletionEvent ==
    \A t \in TaskIds :
        proc[t] = "done" =>
            /\ Cardinality(EventsOf(t)) = 1
            /\ \A i \in EventsOf(t) :
                  /\ completions[i].agent = owner[t]
                  /\ completions[i].status = tasks[t].status

\* C7: once analyze has returned normally for a task (its unit is publishing
\* the notification), the task stays completed with no error, whatever the
\* publish and the listener pushes do.
C7_NotifyErrorSwallowed ==
    [][\A t \in TaskIds :
          proc[t] = "publish" =>
              /\ tasks'[t].status = "completed"
              /\ tasks'[t].error = None]_vars

\* C8: analyze is invoked at most once for a task, also when it fails.
C8_NoRetry ==
    \A t \in TaskIds :
        /\ analyze_calls[t] <= 1
        /\ proc[t] = "done" => analyze_calls[t] = 1

C8_Witness ==
    \E t \in TaskIds :
        /\ proc[t] = "done"
        /\ tasks[t].status = "failed"
        /\ tasks[t].error = "analyze_error"
        /\ analyze_calls[t] = 1

\* C9: tasks of one agent are independent units: the end of a unit removes
\* only its own entry from its agent's table, and an accepted task reaches
\* a terminal status and leaves the table also while another task of the
\* agent has raised or is still in analyze.
C9_IndependentUnits ==
    /\ [][\A t \in TaskIds :
            (proc[t] # "done" /\ proc'[t] = "done") =>
                current_tasks' =
                    [current_tasks EXCEPT ![owner[t]] = @ \ {t}]]_vars
    /\ \A a \in Agents :
          (assign_ret[a][2] = "True") ~>
              (Terminal(2) /\ proc[2] = "done" /\ 2 \notin current_tasks[a])

\* The second task is over while the first, assigned earlier to the same
\* agent, has not returned from analyze.
C9_Witness ==
    \E a \in Agents :
        /\ assign_ret[a][1] = "True"
        /\ assign_ret[a][2] = "True"
        /\ proc[1] = "analyze"
        /\ 1 \in current_tasks[a]
        /\ proc[2] = "done"
        /\ 2 \notin current_tasks[a]

\* C10: each mailbox is handled in arrival order, one message at a time: the
\* k-th handling an agent starts is of the k-th message that arrived, and
\* it ends before the next one starts.
C10_MailboxFifo ==
    \A a \in Agents :
        LET h == handled[a] IN
        /\ \A i \in DOMAIN h :
              /\ h[i][2] = (IF i % 2 = 1 THEN "start" ELSE "end")
              /\ i % 2 = 0 => h[i][1] = h[i-1][1]
              /\ i % 2 = 1 =>
                    /\ (i + 1) \div 2 <= Len(arrivals[a])
                    /\ h[i][1] = arrivals[a][(i + 1) \div 2]

\* Two messages were on the queue together, the first a collaboration
\* request whose handling spans steps, and both have been handled.
C10_Witness ==
    \E a \in Agents :
        /\ Len(handled[a]) = 4
        /\ handled[a][1][1] # handled[a][3][1]
        /\ Len(arrivals[a]) >= 2

\* The analyze invocation that agent y made for request i raised.
CollabRaised(y, i) ==
    \E k \in DOMAIN collab_log[y] :
        collab_log[y][k].id = i /\ collab_log[y][k].outcome = "raised"

\* Agent y's handler of message i has run to its end.
HandlingEnded(y, i) ==
    \E k \in DOMAIN handled[y] : handled[y][k] = <<i, "end">>

InArrivals(a, i) == \E k \in DOMAIN arrivals[a] : arrivals[a][k] = i

\* The collaboration_response that y owes for the request in mp[y].msg.
ResponseTo(y, result) ==
    [id |-> MaxMsgs + mp[y].msg.id, sender |-> y, recipient |-> mp[y].msg.sender,
     message_type |-> "collaboration_response",
     content |-> [result |-> result], priority |-> MEDIUM]

C12_AbsentRecipientDropped ==
    [][\A x \in Agents :
          (collab_ret' # collab_ret /\ collab_ret'.by = x
           /\ collab_ret'.to \notin council_agents[x]) =>
              /\ collab_ret'.ret = None
              /\ UNCHANGED <<message_queue, status, current_tasks,
                             session_memory, council_agents>>]_vars

\* ------------------------------------------------------- provider router
\* Provider p is registered and its cached health flag is true.
Usable(p) == p \in providers /\ p \in DOMAIN health_status /\ health_status[p]

\* Where provider p stands in a list without repetition (0 when absent).
IndexIn(list, p) ==
    IF \E i \in DOMAIN list : list[i] = p
    THEN CHOOSE i \in DOMAIN list : list[i] = p
    ELSE 0

\* cand holds exactly the usable providers of list, in list's order.
UsableOf(cand, list) ==
    /\ \A p \in AIProvider :
          IndexIn(cand, p) > 0 <=> (IndexIn(list, p) > 0 /\ Usable(p))
    /\ \A i, j \in DOMAIN cand :
          i < j => IndexIn(list, cand[i]) < IndexIn(list, cand[j])

\* This step is a call of route_query.
CallStep == queries' = queries + 1

\* The call made no attempt on a preferred provider: all its attempts are on
\* the candidates of the list.
ListOnly(call) == Len(call.attempts) = call.pos

\* C13: a call with no usable preferred provider attempts exactly the usable
\* (registered and healthy) providers of its category's list, in the list's
\* order, one after the other while they raise, and ends at the first one
\* whose query returns, with that provider's response.
C13_OrderedFailover ==
    /\ [][(CallStep /\ (rq'.preferred # None => ~ Usable(rq'.preferred))) =>
             /\ UsableOf(rq'.candidates, RoutingRules(rq'.query_type))
             /\ rq'.pos = IF rq'.candidates = <<>> THEN 0 ELSE 1]_vars
    /\ [][(rq.pc = "list" /\ rq' # rq /\ ~ CallStep) =>
             /\ rq'.candidates = rq.candidates
             /\ \/ rq'.pc = "done" /\ rq'.attempts = rq.attempts
                \/ /\ rq'.pc = "list"
                   /\ rq'.pos = rq.pos + 1
                   /\ rq'.attempts = Append(rq.attempts, rq.candidates[rq'.pos])]_vars
    /\ [](ListOnly(rq) =>
             /\ rq.attempts = SubSeq(rq.candidates, 1, rq.pos)
             /\ rq.outcome.kind = "response" =>
                    /\ rq.pc = "done"
                    /\ rq.outcome.provider = rq.candidates[rq.pos])

C13_Witness ==
    /\ rq.pc = "done"
    /\ rq.query_type = "creative"
    /\ rq.preferred = None
    /\ "chatgpt" \in providers /\ ~ Usable("chatgpt")
    /\ rq.candidates = <<"gemini", "claude">>
    /\ rq.attempts = <<"gemini", "claude">>
    /\ rq.outcome.kind = "response"
    /\ rq.outcome.provider = "claude"

\* No provider of the category's list is usable when the call is made.
NoCandidate(qt) ==
    \A i \in DOMAIN RoutingRules(qt) : ~ Usable(RoutingRules(qt)[i])

NoHealthyAndNoAttempt(call) ==
    /\ call.pc = "done"
    /\ call.outcome.kind = "error"
    /\ call.outcome.error = "No healthy AI providers available"
    /\ call.attempts = <<>>

\* C14 as stated: when no provider of the category's list is usable, the
\* call fails with the no-healthy-provider error and queries no provider,
\* whatever preferred provider the context names.
C14_NoHealthyAnyHint ==
    [][(CallStep /\ NoCandidate(rq'.query_type)) =>
           NoHealthyAndNoAttempt(rq')]_vars

\* C14 (amended): when no provider of the category's list is usable and the
\* context names no preferred provider that is registered and healthy, the
\* call fails with the no-healthy-provider error and queries no provider.
C14_NoHealthyNoAttempt ==
    [][(/\ CallStep
        /\ NoCandidate(rq'.query_type)
        /\ rq'.preferred # None => ~ Usable(rq'.preferred)) =>
           NoHealthyAndNoAttempt(rq')]_vars

C14_Witness ==
    /\ NoHealthyAndNoAttempt(rq)
    /\ rq.preferred # None
    /\ rq.preferred \in providers
    /\ \E i \in DOMAIN RoutingRules(rq.query_type) :
          RoutingRules(rq.query_type)[i] \in providers
    /\ \E p \in providers : Usable(p)

\* C15: when the last candidate raises as the ones before it did, the call
\* fails with the aggregate error naming the last candidate's failure; while
\* a later candidate remains, a candidate's failure does not end the call.
C15_AggregateNamesLast ==
    [][(rq.pc = "list" /\ rq' # rq /\ ~ CallStep
        /\ rq'.outcome.kind # "response") =>
           IF rq.pos = Len(rq.candidates)
           THEN /\ rq'.pc = "done"
                /\ rq'.outcome.kind = "error"
                /\ rq'.outcome.error = "All AI providers failed"
                /\ rq'.outcome.cause = rq.candidates[Len(rq.candidates)]
                /\ rq'.outcome.cause = rq.attempts[Len(rq.attempts)]
           ELSE /\ rq'.pc = "list"
                /\ rq'.outcome.kind = "none"]_vars

C15_Witness ==
    /\ rq.pc = "done"
    /\ rq.outcome.error = "All AI providers failed"
    /\ Len(rq.candidates) = 3
    /\ rq.outcome.cause = rq.candidates[3]

\* C16: a call whose preferred provider is registered and healthy queries
\* it first, before any provider of the list; otherwise the preferred
\* provider is not queried as such and the call starts from the list.
C16_PreferredFirst ==
    [][CallStep =>
          IF rq'.preferred # None /\ Usable(rq'.preferred)
          THEN rq'.pc = "preferred" /\ rq'.attempts = <<rq'.preferred>>
          ELSE /\ rq'.pc # "preferred"
               /\ UsableOf(rq'.candidates, RoutingRules(rq'.query_type))
               /\ rq'.attempts = IF rq'.candidates = <<>>
                                 THEN <<>>
                                 ELSE <<rq'.candidates[1]>>]_vars

C16_Witness ==
    /\ rq.pc = "list"
    /\ Len(rq.attempts) = 2
    /\ rq.attempts[1] = rq.preferred
    /\ rq.attempts[2] = rq.candidates[1]
    /\ rq.preferred # rq.candidates[1]

\* C17: when the preferred provider's query raises, a call with fallback
\* disabled ends at once with that failure and queries no other provider; a
\* call with fallback enabled does not raise it and goes on with the list.
C17_FallbackSwitch ==
    [][(rq.pc = "preferred" /\ rq' # rq /\ ~ CallStep
        /\ rq'.outcome.kind # "response") =>
           IF ~ rq.fallback
           THEN /\ rq'.pc = "done"
                /\ rq'.outcome.kind = "error"
                /\ rq'.outcome.cause = rq.preferred
                /\ rq'.outcome.error = "provider error"
                /\ rq'.attempts = <<rq.preferred>>
           ELSE /\ rq'.outcome.cause # rq.preferred
                /\ rq'.outcome.error # "provider error"
                /\ UsableOf(rq'.candidates, RoutingRules(rq.query_type))
                /\ IF rq'.candidates = <<>>
                   THEN rq'.attempts = rq.attempts
                   ELSE /\ rq'.pc = "list"
                        /\ rq'.attempts = Append(rq.attempts, rq'.candidates[1])]_vars

C17_Witness ==
    /\ rq.pc = "done"
    /\ ~ rq.fallback
    /\ rq.outcome.error = "provider error"
    /\ rq.outcome.cause = rq.preferred
    /\ rq.attempts = <<rq.preferred>>
    /\ \E i \in DOMAIN RoutingRules(rq.query_type) :
          /\ RoutingRules(rq.query_type)[i] # rq.preferred
          /\ Usable(RoutingRules(rq.query_type)[i])

RECURSIVE SumSeq(_)
SumSeq(q) == IF q = <<>> THEN 0 ELSE Head(q) + SumSeq(Tail(q))

\* C18: for every provider, the stored query count is the number of
\* responses recorded for it and the stored average confidence is their
\* arithmetic mean (as exact quotients).
C18_IncrementalMean ==
    \A p \in AIProvider :
        IF p \in DOMAIN performance_metrics
        THEN /\ performance_metrics[p].total_queries = Len(recorded[p])
             /\ Len(recorded[p]) > 0
             /\ performance_metrics[p].average_confidence.num
                   * Len(recorded[p])
                 = SumSeq(recorded[p])
                   * performance_metrics[p].average_confidence.den
        ELSE recorded[p] = <<>>

C18_Witness ==
    \E p \in AIProvider :
        /\ recorded[p] = <<90, 70>>
        /\ performance_metrics[p].total_queries = 2
        /\ performance_metrics[p].average_confidence = [num |-> 80, den |-> 1]

\* ------------------------------------------------------------- ownership
\* The agents whose current-task table holds task t.
Holders(t) == {a \in Agents : t \in current_tasks[a]}

\* C19: a task is in at most one agent's current-task table, whatever
\* assign_task calls and task_delegation messages the agents get.
C19_OneTablePerTask ==
    \A t \in TaskIds : Cardinality(Holders(t)) <= 1

\* A task in one agent's table was offered to the other agent, which
\* refused it; and a delegated task is in a table as well.
C19_Witness ==
    /\ \E t \in CallerTaskIds : \E a, b \in Agents :
          /\ a # b
          /\ t \in current_tasks[a]
          /\ assign_ret[a][t] = "True"
          /\ assign_ret[b][t] = "False"
    /\ \E t \in TaskIds \ CallerTaskIds : Holders(t) # {}

\* ------------------------------------------------------------ wire shape
\* The value is built of dicts with str keys, lists, strings, numbers,
\* booleans and None only.
RECURSIVE JsonNative(_)
JsonNative(x) ==
    CASE x.t \in {"str", "int", "bool", "NoneType"} -> TRUE
      [] x.t = "list" -> \A i \in DOMAIN x.v : JsonNative(x.v[i])
      [] x.t = "dict" ->
             \A i \in DOMAIN x.v :
                 x.v[i][1].t = "str" /\ JsonNative(x.v[i][2])
      [] OTHER -> FALSE

\* C20 as stated: every message that was serialized and deserialized comes
\* back equal in every field.
C20_RoundTripAnyContent ==
    wire.pc = "received" => wire.back = wire.msg

\* C20 (amended): a message whose content is built of dicts with string
\* keys, lists, strings, numbers, booleans and None comes back equal in every
\* field; on the wire the priority is an integer 1..5 and the timestamp is
\* its ISO-8601 text.
C20_RoundTrip ==
    /\ wire.pc # "idle" =>
          /\ wire.text.priority \in 1..5
          /\ wire.text.priority = PriorityValue(wire.msg.priority)
          /\ wire.text.timestamp = IsoFormat(wire.msg.timestamp)
    /\ (wire.pc = "received" /\ JsonNative(wire.msg.content)) =>
          /\ wire.back.id = wire.msg.id
          /\ wire.back.sender = wire.msg.sender
          /\ wire.back.recipient = wire.msg.recipient
          /\ wire.back.message_type = wire.msg.message_type
          /\ wire.back.content = wire.msg.content
          /\ wire.back.timestamp = wire.msg.timestamp
          /\ wire.back.priority = wire.msg.priority

C20_Witness ==
    /\ wire.pc = "received"
    /\ wire.msg.content = PyDict(<< <<PyStr("xs"), PyList(<<PyInt("1"), PyStr("a")>>)>> >>)
    /\ wire.msg.timestamp.microsecond = "250000"
    /\ wire.msg.priority = "EMERGENCY"
    /\ wire.text.priority = 5
    /\ wire.back = wire.msg
\* ------------------------------------------------------- provider metrics
\* self.performance_metrics[p], or the zero entry when p has none yet.
MetricsOf(pm, p) == IF p \in DOMAIN pm THEN pm[p] ELSE NewMetrics

\* A step in which the route_query call returns or raises.
CallEnds ==
    /\ rq'.pc = "done"
    /\ rq.pc \in {"preferred", "list"} \/ CallStep

\* C21: a route_query call that returns a response from provider P, reached
\* as the preferred provider or through the category list, raises P's query
\* count by one and its cumulative latency and cost by the response's
\* values; a call that fails records nothing for any provider.
C21_MetricsOnEveryResponse ==
    [][ CallEnds =>
          IF rq'.outcome.kind = "response"
          THEN LET o == rq'.outcome
                   old == MetricsOf(performance_metrics, o.provider)
                   new == MetricsOf(performance_metrics', o.provider)
               IN /\ new.total_queries = old.total_queries + 1
                  /\ new.total_time = old.total_time + o.processing_time
                  /\ new.total_cost = old.total_cost + o.cost
          ELSE performance_metrics' = performance_metrics ]_vars


\* The step of a call in which it returns the response that provider p gave
\* in the loop over the category's list.
ListSuccess(call, after, p) ==
    /\ call.pc = "list"
    /\ after.pc = "done"
    /\ after.outcome.kind = "response"
    /\ after.outcome.provider = p

\* The call has returned a response obtained in the loop over the list.
ThroughList(call, p) ==
    /\ call.pc = "done"
    /\ call.outcome.kind = "response"
    /\ call.outcome.provider = p
    /\ call.candidates # <<>>

\* C22: with two route_query calls in progress at once, every response a
\* call obtains through the category list raises its provider's query count
\* by exactly one and makes the average confidence the mean of the old
\* average (weighted by the old count) and the new confidence: no update of
\* one call is lost to the other.
C22_NoLostUpdate ==
    [][ \A p \in AIProvider :
          LET first == ListSuccess(rq, rq', p)
              second == ListSuccess(rq2, rq2', p)
              k == (IF first THEN 1 ELSE 0) + (IF second THEN 1 ELSE 0)
              sum == (IF first THEN rq'.outcome.confidence ELSE 0)
                     + (IF second THEN rq2'.outcome.confidence ELSE 0)
              old == MetricsOf(performance_metrics, p)
              new == MetricsOf(performance_metrics', p)
          IN /\ new.total_queries = old.total_queries + k
             /\ new.average_confidence.num * old.average_confidence.den
                   * new.total_queries
                = (old.average_confidence.num * old.total_queries
                   + sum * old.average_confidence.den)
                  * new.average_confidence.den ]_vars

\* Two calls that were in progress together have both returned a response of
\* the same provider from the list: its count is 2 and its average the mean.
C22_Witness ==
    \E p \in AIProvider :
        /\ queries = 2
        /\ ThroughList(rq, p)
        /\ ThroughList(rq2, p)
        /\ rq.outcome.confidence # rq2.outcome.confidence
        /\ performance_metrics[p].total_queries = 2
        /\ performance_metrics[p].average_confidence = [num |-> 80, den |-> 1]


\* C23: under route_query calls that return or raise, health sweeps and
\* router shutdown, no provider's query count, cumulative latency or
\* cumulative cost ever decreases, and no provider's entry disappears.
C23_MetricsAppendOnly ==
    [][ \A p \in DOMAIN performance_metrics :
          /\ p \in DOMAIN performance_metrics'
          /\ performance_metrics'[p].total_queries
                >= performance_metrics[p].total_queries
          /\ performance_metrics'[p].total_time
                >= performance_metrics[p].total_time
          /\ performance_metrics'[p].total_cost
                >= performance_metrics[p].total_cost ]_vars

\* A provider has two recorded responses, a sweep has run, and the router
\* was shut down afterwards: the entries are still there.
C23_Witness ==
    \E p \in AIProvider :
        /\ p \in DOMAIN performance_metrics
        /\ performance_metrics[p].total_queries = 2
        /\ performance_metrics[p].total_time = 5
        /\ probe # NoProbe
        /\ providers = {}
        /\ DOMAIN health_status = {}


\* ---------------------------------------------------------- cached health
\* A step of _health_check_all: the probe of the next provider ends.
ProbeStep == sweep # <<>> /\ sweep' # sweep

\* The step of shutdown().
ShutdownStep == providers # {} /\ providers' = {}

\* C24: no step of a route_query call (its start, a provider's response, a
\* provider's failure) changes any cached health flag; the flags change
\* only in a step of the health-check sweep or in shutdown.
C24_RouteQueryKeepsHealth ==
    [][ /\ rq' # rq => health_status' = health_status
        /\ health_status' # health_status => ProbeStep \/ ShutdownStep ]_vars

\* A call has ended with the aggregate error after a provider's failure and
\* that provider is still flagged healthy.
C24_Witness ==
    /\ rq.pc = "done"
    /\ rq.outcome.error = "All AI providers failed"
    /\ rq.outcome.cause \in DOMAIN health_status
    /\ health_status[rq.outcome.cause]
    /\ Len(rq.attempts) >= 2


\* C25: each step of the health-check sweep sets the probed provider's
\* cached flag to the boolean its probe returned, and to false when the
\* probe raised; after a probe that raised the sweep goes on with the
\* remaining providers; no provider that is not registered is marked
\* healthy.
C25_SweepRecordsProbes ==
    [][ ProbeStep =>
          LET p == Head(sweep) IN
          /\ p \in DOMAIN health_status'
          /\ health_status'[p] = (probe'.outcome = "True")
          /\ probe'.outcome = "raise" => sweep' = Tail(sweep)
          /\ \A q \in DOMAIN health_status' :
                health_status'[q] => q \in providers' ]_vars


\* ------------------------------------------------------------ agent status
\* C26: when a task leaves an agent's current-task table, the agent's status
\* is idle afterwards if the table is then empty, and is what it was before
\* if other tasks remain in the table.
C26_StatusAfterRemoval ==
    [][ \A a \in Agents : \A t \in current_tasks[a] :
          t \notin current_tasks'[a] =>
             status'[a] = IF current_tasks'[a] = {} THEN "idle"
                          ELSE status[a] ]_vars

\* A task of the agent has ended and left the table while another one
\* remains, and the status is still the one a collaboration request set.
C26_Witness ==
    \E a \in Agents : \E t \in TaskIds :
        /\ owner[t] = a
        /\ proc[t] = "done"
        /\ t \notin current_tasks[a]
        /\ current_tasks[a] # {}
        /\ status[a] = "collaboration"

\* C27: while a collaboration_request is being handled (analyze is
\* running for it) the agent's status is collaboration; when the handling
\* ends, by analyze returning or raising, the status is idle if the
\* current-task table is empty at that moment and is left as it was if
\* tasks remain.
C27_CollaborationStatus ==
    [][ \A a \in Agents :
          /\ mp'[a].pc = "analyze" => status'[a] = "collaboration"
          /\ mp[a].pc = "analyze" /\ mp'[a].pc # "analyze" =>
                status'[a] = IF current_tasks[a] = {} THEN "idle"
                             ELSE status[a] ]_vars


\* ---------------------------------------------------- responses and shares
\* The step in which agent a's analyze returns for a collaboration request.
ResponseReady(a) ==
    /\ mp[a].pc = "analyze"
    /\ mp'[a].pc # "analyze"
    /\ collab_log'[a][Len(collab_log'[a])].outcome \in AnalyzeResults

\* C28: when analyze has returned for a collaboration_request whose sender
\* is not in the handling agent's council directory at that moment, no
\* mailbox receives a response, the handling ends without an error (it is
\* recorded as ended) and the mailbox loop is at its sleep, from which it
\* takes the next message.
C28_UnregisteredSenderDropped ==
    [][ \A a \in Agents :
          ResponseReady(a) /\ mp[a].msg.sender \notin council_agents[a] =>
             /\ message_queue' = message_queue
             /\ arrivals' = arrivals
             /\ handled'[a] = Append(handled[a], <<mp[a].msg.id, "end">>)
             /\ mp'[a] = [pc |-> "sleep", msg |-> None] ]_vars

\* An agent that is in nobody's directory asked for collaboration: analyze
\* returned, no response is in any mailbox, and the handling agent has begun
\* the next message.
C28_Witness ==
    \E a \in Agents :
        /\ council_agents[a] = {}
        /\ Len(collab_log[a]) >= 1
        /\ collab_log[a][1].outcome \in AnalyzeResults
        /\ Len(handled[a]) >= 3
        /\ handled[a][1] = <<collab_log[a][1].id, "start">>
        /\ handled[a][2] = <<collab_log[a][1].id, "end">>
        /\ \A c \in Agents : \A i \in 1..Len(arrivals[c]) :
              arrivals[c][i] <= MaxMsgs
        /\ \E m \in 1..MaxMsgs : <<m, "start">> = handled[a][3]


\* The step in which agent a's loop takes a data_share message and handles
\* it.
SharesData(a) ==
    /\ mp[a].pc = "get"
    /\ mp'[a].pc = "sleep"
    /\ message_queue[a] # <<>>
    /\ Head(message_queue[a]).message_type = "data_share"

Delegates(a) ==
    /\ mp[a].pc = "get"
    /\ mp'[a].pc = "sleep"
    /\ message_queue[a] # <<>>
    /\ Head(message_queue[a]).message_type = "task_delegation"

\* What the handling of delegation message m by agent a does when it builds
\* the task: the task has an id no task had before, the content's type and
\* the content's priority (MEDIUM when it gives none); it is passed to
\* assign_task and accepted exactly when the agent supports its type; a task
\* of unsupported or missing type changes no status and no table.
DelegatedTaskAssigned(a, m) ==
    LET t == MaxTasks + m.id
        c == m.content
        tt == IF "task_type" \in DOMAIN c THEN c.task_type ELSE None
        supported == tt \in SupportedTasks(a)
    IN /\ assign_ret[a][t] = None
       /\ proc[t] = "none"
       /\ tasks'[t].task_type = tt
       /\ tasks'[t].priority =
             IF "priority" \in DOMAIN c THEN c.priority ELSE MEDIUM
       /\ assign_ret'[a][t] = IF supported THEN "True" ELSE "False"
       /\ t \in current_tasks'[a] <=> supported
       /\ supported => status'[a] = "working" /\ proc'[t] = "scheduled"
       /\ ~ supported => status' = status /\ current_tasks' = current_tasks

\* C30 (as stated): the handling of every task_delegation message builds
\* the task and passes it to assign_task.
C30_DelegationAlwaysAssigned ==
    [][ \A a \in Agents :
          Delegates(a) =>
             DelegatedTaskAssigned(a, Head(message_queue[a])) ]_vars

\* C30 (amended): the handling of a task_delegation message whose content
\* gives no priority or one of the values 1..5 builds the task and passes it
\* to assign_task; with any other priority value no task is built, nothing
\* is passed to assign_task, and status and tables are unchanged.
C30_DelegationAssigned ==
    [][ \A a \in Agents :
          Delegates(a) =>
             LET m == Head(message_queue[a]) IN
             IF "priority" \in DOMAIN m.content
                /\ m.content.priority \notin {1, 2, 3, 4, 5}
             THEN /\ tasks' = tasks
                  /\ assign_ret' = assign_ret
                  /\ status' = status
                  /\ current_tasks' = current_tasks
             ELSE DelegatedTaskAssigned(a, m) ]_vars

\* A delegation without priority was accepted with priority MEDIUM, and one
\* without task type was refused.
C30_Witness ==
    \E a \in Agents : \E t, u \in (MaxTasks + 1)..(MaxTasks + MaxMsgs) :
        /\ assign_ret[a][t] = "True"
        /\ tasks[t].priority = MEDIUM
        /\ tasks[t].task_type \in SupportedTasks(a)
        /\ assign_ret[a][u] = "False"
        /\ tasks[u].task_type = None


\* ------------------------------------------------------- background loops
\* C31: once an agent's mailbox loop runs, every message put on its queue is
\* handled to its end, also the messages put after one whose handling
\* raised (a delegation with malformed content, a hook that raises) and
\* after messages of unknown type, which go to the hook; the loop never
\* stops.
C31_NoMessageFatal ==
    /\ \A a \in Agents : \A i \in 1..MaxMsgs :
          (mp[a].pc # "off" /\ InArrivals(a, i))
             ~> (\E k \in 1..Len(handled[a]) : handled[a][k] = <<i, "end">>)
    /\ [](\A a \in Agents : mp[a].pc \in {"off", "get", "analyze", "sleep"})

\* The handling of an agent's first message raised and the agent has
\* handled the message that arrived after it.
C31_Witness ==
    \E a \in Agents :
        /\ Len(arrivals[a]) = 2
        /\ mp_errors[a] # <<>>
        /\ mp_errors[a][1] = arrivals[a][1]
        /\ Len(handled[a]) = 4
        /\ handled[a][4] = <<arrivals[a][2], "end">>


\* C32: whatever the mailbox loop and the processing units do (they may
\* never move), after a heartbeat whose publish failed the heartbeat loop
\* makes its next publish call; the record of every publish call holds the
\* agent's status and the size of its current-task table as they are when
\* the call is made, a publish that returns adds exactly that record to the
\* store, and no step of the heartbeat loop changes the agent's status,
\* tasks or mailbox.
C32_HeartbeatIndependent ==
    /\ \A a \in BusyAgents : \A n \in 1..(MaxBeats - 1) :
          (hm[a].failed = n) ~> (Beats(a) > n)
    /\ [][ \A a \in Agents :
             /\ hm'[a].calls # hm[a].calls =>
                   /\ hm'[a].record =
                         [status |-> status[a],
                          active_tasks |-> Cardinality(current_tasks[a])]
                   /\ heartbeats' = heartbeats
             /\ \/ heartbeats'[a] # heartbeats[a]
                \/ /\ hm[a].pc = "publish" /\ hm'[a].pc = "sleep"
                   /\ hm'[a].failed = hm[a].failed
                => heartbeats'[a] = hm[a].record
             /\ hm'[a] # hm[a] /\ hm[a].pc # "off" =>
                   UNCHANGED <<status, current_tasks, taskVars, mailVars>> ]_vars

\* The first publish failed, the second one stored a record taken while a
\* task was in the table, and the mailbox loop is held in analyze.
C32_Witness ==
    \E a \in BusyAgents :
        /\ hm[a].failed = 1
        /\ Beats(a) = 2
        /\ hm[a].pc = "sleep"
        /\ heartbeats[a] = [status |-> "working", active_tasks |-> 1]
        /\ mp[a].pc = "analyze"


\* ------------------------------------------------------ provider attempts
\* C33: within one route_query call no provider is queried more than once:
\* the providers attempted by the call are pairwise distinct, also when a
\* preferred provider failed and the call went on to the category's list.
C33_NoProviderTwice ==
    \A i, j \in 1..Len(rq.attempts) :
        i # j => rq.attempts[i] # rq.attempts[j]

\* C34: with health-check sweeps running between the steps of a route_query
\* call, every provider whose query the call invokes is registered and has
\* a true cached health flag at the moment of the invocation.
C34_QueriedWhileHealthy ==
    [][ Len(rq'.attempts) > Len(rq.attempts) \/ (CallStep /\ rq'.attempts # <<>>)
          => Usable(rq'.attempts[Len(rq'.attempts)]) ]_vars


\* ------------------------------------------------ status under interleaving
\* initialize() has run for agent a.
Initialized(a) == redis_client[a] # None

\* Agent a is idle with tasks in its table.
IdleWithTasks(a) == status[a] = "idle" /\ current_tasks[a] # {}

\* C35 (as stated): once initialize has completed, an agent whose status is
\* idle has an empty current-task table.
C35_IdleMeansEmpty ==
    \A a \in Agents : Initialized(a) => ~ IdleWithTasks(a)

\* C35 (amended): no task assignment, task completion or message handling
\* makes an agent idle with tasks in its table; only initialize does, when it
\* runs with tasks already in the table.
C35_IdleMeansEmptyOnceClean ==
    [][ \A a \in Agents :
          IdleWithTasks(a)' =>
             \/ IdleWithTasks(a)
             \/ ~ Initialized(a) /\ Initialized(a)' ]_vars

\* An initialized agent is idle with an empty table after a task of its own
\* ended and a collaboration request was handled.
C35_Witness ==
    \E a \in Agents : \E t \in TaskIds :
        /\ Initialized(a)
        /\ status[a] = "idle"
        /\ current_tasks[a] = {}
        /\ owner[t] = a
        /\ proc[t] = "done"
        /\ tasks[t].status = "completed"
        /\ Len(handled[a]) >= 2

\* The step in which the handling of a collaboration request by a ends.
HandlingEnds(a) == mp[a].pc = "analyze" /\ mp'[a].pc # "analyze"

\* C36: when the handling of a collaboration_request ends with tasks in the
\* table the status is working afterwards, and an agent that handles no
\* collaboration request is never in status collaboration.
C36_WorkingAfterCollaboration ==
    [][ \A a \in Agents :
          /\ HandlingEnds(a) /\ current_tasks[a] # {} =>
                status'[a] = "working"
          /\ mp'[a].pc # "analyze" => status'[a] # "collaboration" ]_vars

\* C37: while analyze runs for a collaboration_request the agent's status
\* is collaboration.
C37_CollaborationDuringAnalyze ==
    \A a \in Agents : mp[a].pc = "analyze" => status[a] = "collaboration"

\* The accepted tasks of agent a whose processing unit has not finished.
InFlight(a) ==
    { t \in TaskIds :
         owner[t] = a /\ proc[t] \in {"scheduled", "analyze", "publish"} }

\* C38: with task ids unique, the size of an agent's current-task table is
\* the number of its accepted tasks whose processing unit has not finished
\* (the table holds exactly those tasks).
C38_TableCountsInFlight ==
    \A a \in Agents :
        /\ current_tasks[a] = InFlight(a)
        /\ Cardinality(current_tasks[a]) = Cardinality(InFlight(a))

\* Two tasks of one agent are in flight, one in analyze and one in its
\* publish: the table holds the two.
C38_Witness ==
    \E a \in Agents : \E t, u \in TaskIds :
        /\ t # u
        /\ current_tasks[a] = {t, u}
        /\ proc[t] = "analyze"
        /\ proc[u] = "publish"

\* C39: once shutdown() has returned the agent's status is offline, whatever
\* happens afterwards.
C39_OfflineAfterShutdown ==
    \A a \in Agents : closing[a] = "done" => status[a] = "offline"


\* ------------------------------------------------------------- quiescence
RECURSIVE Occurrences(_, _)
\* How many times x occurs in the sequence q.
Occurrences(q, x) ==
    IF q = <<>> THEN 0
    ELSE (IF Head(q) = x THEN 1 ELSE 0) + Occurrences(Tail(q), x)

\* The answers to request i that were put in a's queue so far: an answer's
\* id is MaxMsgs + i.
AnswersTo(a, i) == Occurrences(arrivals[a], MaxMsgs + i)

\* The message at the head of a's queue is an answer to a request.
AnswerWaiting(a) ==
    /\ message_queue[a] # <<>>
    /\ QueueGet(message_queue[a]).id > MaxMsgs

\* Every mailbox loop runs.
AllLoopsRun == \A a \in Agents : mp[a].pc # "off"

\* No message waits and no request is being handled.
Quiet ==
    \A a \in Agents : message_queue[a] = <<>> /\ mp[a].pc # "analyze"

\* C40: a request gets at most one answer; the loop that takes an answer
\* from its queue puts no message in any queue and goes to its sleep without
\* calling analyze; and once every loop runs, a state with every mailbox
\* empty and no request in handling is reached.
C40_ExchangeQuiesces ==
    /\ [](\A i \in 1..MaxMsgs :
             AnswersTo("ORACLE", i) + AnswersTo("ATLAS", i) <= 1)
    /\ [][ \A a \in Agents :
             AnswerWaiting(a) /\ message_queue'[a] = QueueRest(message_queue[a])
             => /\ arrivals' = arrivals
                /\ \A b \in Agents \ {a} : message_queue'[b] = message_queue[b]
                /\ mp'[a].pc = "sleep"
                /\ status'[a] = status[a] ]_vars
    /\ (AllLoopsRun ~> Quiet)

\* Both agents asked each other, both answers were delivered and taken from
\* the queues by the hook, and every mailbox is empty again.
C40_Witness ==
    /\ Quiet
    /\ AllLoopsRun
    /\ AnswersTo("ORACLE", 1) + AnswersTo("ORACLE", 2) >= 1
    /\ AnswersTo("ATLAS", 1) + AnswersTo("ATLAS", 2) >= 1
    /\ \A a \in Agents : Len(handled[a]) >= 4


====
